---------------------------- MODULE Spec2Model ----------------------------
(***************************************************************************)
(* Block-cache synchronisation scripts of nanoreth:                        *)
(*   scripts/check_block_completeness.py   the completeness scanner        *)
(*   scripts/download_boundary_blocks.py   the boundary downloader         *)
(*   scripts/fetch_blocks_rpc.py           the live RPC fetcher            *)
(*                                                                         *)
(* A cache entry is identified by its path relative to the blocks          *)
(* directory, blocks_dir/str(m)/str(t)/f"{bn}.rmp.lz4".  Decimal rendering *)
(* of an integer is injective, so a relative path is kept as the triple    *)
(* <<m, t, bn>> of the three integers that are rendered into it.           *)
(*                                                                         *)
(* Python's // is floor division, as is \div of Integers.                  *)
(***************************************************************************)
EXTENDS Integers, Sequences, FiniteSets, TLC

VARIABLES
    \* ---- path scheme harness: one height pushed through every component
    h,              \* the height under test
    computed,       \* FALSE until the path functions have been applied
    scan_dir,       \* check_block_completeness.expected_dir(h)
    scan_path,      \* check_block_completeness.cache_path(blocks_dir, h)
    bnd_key,        \* download_boundary_blocks.s3_key(h)
    bnd_path,       \* download_boundary_blocks.cache_path(blocks_dir, h)
    rpc_path,       \* fetch_blocks_rpc.block_path(blocks_dir, h)
    shard,          \* the heights near h that expected_dir sends to h's shard
    \* ---- the local archive, shared by the scripts
    cache,          \* the relative paths of the entries that exist
    partial,        \* those of them whose file is empty or truncated
    foreign,        \* what else the tree holds: <<kind, millions, thousands>>
    \* ---- check_block_completeness.main
    scan_pc,        \* position in main
    args_start,     \* --start: <<>> for None, <<n>> for n
    args_end,       \* --end (0: auto-detect)
    args_fix,       \* --fix
    chain,          \* --chain
    latest,
    m_iter,         \* next value of range(millions_start, millions_end + 1, 1_000_000)
    t_iter,         \* next value of range(t_start, t_end + 1, 1_000)
    millions_base,
    thousands_base,
    expected,       \* blocks_in_chunk(...) of the last chunk visited
    total_expected,
    total_missing,
    all_missing,
    incomplete_chunks,
    dl_missing,     \* download_blocks: the list it was called with
    dl_todo,        \* download_blocks: submitted tasks that have not run yet
    dl_results,     \* download_blocks: completed futures not yet consumed
    dl_started,     \* download_blocks: the heights whose task has run, in order
    downloaded,
    failed,
    exit_code,      \* what sys.exit(main()) is given; -1 while running
    \* ---- download_boundary_blocks.main
    bnd_pc,         \* position in main
    bnd_start,      \* --start: <<>> for None, <<n>> for n
    bnd_end,        \* --end: <<>> for None, <<n>> for n
    bnd_chain,      \* --chain
    bnd_dry_run,    \* --dry-run
    bnd_missing,    \* find_missing_blocks(...)
    bnd_todo,       \* submitted tasks that have not run yet
    bnd_results,    \* completed futures not yet consumed
    bnd_started,    \* the heights whose task has run, in order
    bnd_downloaded,
    bnd_failed,
    \* ---- fetch_blocks_rpc.main
    fetch_pc,       \* position in main
    fetch_start,    \* --start: <<>> for None, <<n>> for n
    fetch_end,      \* --end: <<>> for None, <<n>> for n
    batch_size,     \* --batch-size
    args_delay,     \* --delay, in units of 1/DelayScale second
    dry_run,        \* --dry-run
    scan_gaps,      \* --scan-gaps
    missing,
    i,              \* the batch loop's index into missing
    total_written,
    total_errors,
    current_delay,  \* in units of 1/DelayScale second
    consecutive_ok,
    pace_slept,     \* the time.sleep(current_delay) calls of the batch loop, in order
    \* ---- fetch_blocks_rpc.fetch_and_write_batch, the last call
    block_nums,
    issued,         \* the batches it has been called with in this run, in order
    rpc_batch,      \* the request list handed to rpc_call
    results,        \* the array rpc_call returned
    written,        \* the pair returned; -1 before the first return
    errors,
    \* ---- fetch_blocks_rpc.rpc_call, the call in progress
    rpc_caller,     \* "tip" (get_chain_tip) or "batch" (fetch_and_write_batch)
    attempt,
    rpc_requests,   \* session.post calls made
    rpc_slept,      \* the backoff sleeps made, in seconds, in order
    rpc_last,       \* what the last exchange yielded
    rpc_exc,        \* the class of the exception raised to the caller
    \* ---- the live node
    node_tip,       \* eth_blockNumber
    node_answers,   \* per height, how the node answers the two queries
    write_fails,    \* heights whose entry the file system fails to write whole
    fetch_exit,     \* the script's exit status; -1 while running
    invocation,     \* how many times the script has been invoked
    left_behind,    \* heights the invocation before left unwritten below a written one
    \* ---- fetch_blocks_rpc.rpc_to_nanoreth applied to one block
    codec_pc,       \* "start" before the call, "done" after it
    codec_block,    \* block_json
    codec_receipts, \* receipts_json
    codec_out       \* what the call returned, or that it raised

pathVars == <<h, computed, scan_dir, scan_path, bnd_key, bnd_path, rpc_path, shard>>

scanVars == <<scan_pc, args_start, args_end, args_fix, chain, latest, m_iter, t_iter,
              millions_base, thousands_base, expected, total_expected, total_missing,
              all_missing, incomplete_chunks, dl_missing, dl_todo, dl_results,
              dl_started, downloaded, failed, exit_code>>

boundaryVars == <<bnd_pc, bnd_start, bnd_end, bnd_chain, bnd_dry_run, bnd_missing, bnd_todo,
                  bnd_results, bnd_started, bnd_downloaded, bnd_failed>>

fetchVars == <<fetch_pc, fetch_start, fetch_end, batch_size, args_delay, dry_run, scan_gaps,
               missing, i, total_written, total_errors, current_delay, consecutive_ok,
               pace_slept, block_nums, issued, rpc_batch, results, written, errors,
               rpc_caller, attempt, rpc_requests, rpc_slept, rpc_last, rpc_exc,
               node_tip, node_answers, write_fails, fetch_exit, invocation, left_behind>>

codecVars == <<codec_pc, codec_block, codec_receipts, codec_out>>

vars == <<pathVars, cache, partial, foreign, scanVars, boundaryVars, fetchVars, codecVars>>

\* what a step of one script leaves alone: the other scripts' state
notPath == <<cache, partial, foreign, scanVars, boundaryVars, fetchVars, codecVars>>
notScan == <<pathVars, boundaryVars, fetchVars, codecVars>>
notFetch == <<pathVars, scanVars, boundaryVars, codecVars>>
notBoundary == <<pathVars, scanVars, fetchVars, codecVars>>
notCodec == <<pathVars, cache, partial, foreign, scanVars, boundaryVars, fetchVars>>

-----------------------------------------------------------------------------
(* Program constants *)

MILLION == 1000000
THOUSAND == 1000

(* Bounds of the model *)

\* heights are probed within Near of every bucket boundary
Near == 12

-----------------------------------------------------------------------------
(* PathScheme *)

\* f"{m}/{t}/{bn}.rmp.lz4" and blocks_dir / str(m) / str(t) / f"{bn}.rmp.lz4"
RelPath(m, t, bn) == <<m, t, bn>>

\* the off-by-one variant: bucketing by height instead of height - 1
expected_dir_nominus(block_number) ==
    <<(block_number \div MILLION) * MILLION, (block_number \div THOUSAND) * THOUSAND>>

\* check_block_completeness.expected_dir
expected_dir(block_number) ==
    IF block_number = 0
    THEN <<0, 0>>
    ELSE <<((block_number - 1) \div MILLION) * MILLION,
           ((block_number - 1) \div THOUSAND) * THOUSAND>>

\* check_block_completeness.cache_path
cache_path(block_number) ==
    LET d == expected_dir(block_number)
    IN  RelPath(d[1], d[2], block_number)

\* download_boundary_blocks.s3_key
s3_key(block_number) ==
    LET millions == ((block_number - 1) \div MILLION) * MILLION
        thousands == ((block_number - 1) \div THOUSAND) * THOUSAND
    IN  RelPath(millions, thousands, block_number)

\* download_boundary_blocks.cache_path
boundary_cache_path(block_number) ==
    LET millions == ((block_number - 1) \div MILLION) * MILLION
        thousands == ((block_number - 1) \div THOUSAND) * THOUSAND
    IN  RelPath(millions, thousands, block_number)

\* fetch_blocks_rpc.block_path
block_path(block_num) ==
    LET m == ((block_num - 1) \div MILLION) * MILLION
        t == ((block_num - 1) \div THOUSAND) * THOUSAND
    IN  RelPath(m, t, block_num)

-----------------------------------------------------------------------------
(* Path scheme harness *)

NoPath == <<>>

\* bucket boundaries the heights are probed around
Boundaries == {0, 1000, 2000, 999000, 1000000, 1001000, 2000000,
               44999000, 45000000}

PathHeights == {b + d : b \in Boundaries, d \in (0 - Near)..Near} \cap Nat

\* heights around x: the span of one shard and one more on either side
Window(x) == {y \in (x - THOUSAND - 1)..(x + THOUSAND + 1) : y >= 0}

\* the heights of Window(x) that expected_dir sends to the shard of x
ShardOf(x) == {y \in Window(x) : expected_dir(y) = expected_dir(x)}

PathInit ==
    /\ h \in PathHeights
    /\ computed = FALSE
    /\ scan_dir = NoPath
    /\ scan_path = NoPath
    /\ bnd_key = NoPath
    /\ bnd_path = NoPath
    /\ rpc_path = NoPath
    /\ shard = {}

PathCompute ==
    /\ computed = FALSE
    /\ computed' = TRUE
    /\ scan_dir' = expected_dir(h)
    /\ scan_path' = cache_path(h)
    /\ bnd_key' = s3_key(h)
    /\ bnd_path' = boundary_cache_path(h)
    /\ rpc_path' = block_path(h)
    /\ shard' = ShardOf(h)
    /\ UNCHANGED h
    /\ UNCHANGED notPath

PathIdle ==
    /\ h = 0
    /\ computed = TRUE
    /\ scan_dir = NoPath
    /\ scan_path = NoPath
    /\ bnd_key = NoPath
    /\ bnd_path = NoPath
    /\ rpc_path = NoPath
    /\ shard = {}

-----------------------------------------------------------------------------
(* CacheScanner: check_block_completeness.py *)

\* CHAIN_CONFIG[...]["s3_start"]
S3_START_TESTNET == 18000000
S3_START_MAINNET == 1

s3_start(c) == IF c = "testnet" THEN S3_START_TESTNET ELSE S3_START_MAINNET

Max2(a, b) == IF a >= b THEN a ELSE b
Min2(a, b) == IF a <= b THEN a ELSE b

RECURSIVE SetMax(_)
SetMax(S) ==
    IF S = {} THEN 0
    ELSE LET x == CHOOSE y \in S : TRUE
         IN  Max2(x, SetMax(S \ {x}))

\* the outcome of a call: a value, or an exception
Raised == [raised |-> TRUE, value |-> <<>>]
Returned(v) == [raised |-> FALSE, value |-> v]

\* What the tree holds besides the entries, by the directory it is in:
\* <<"name", m, t>> is a file foo.rmp.lz4 in shard m/t, <<"locked", m, t>>
\* says that shard m/t may not be listed, <<"dir", m, t>> is a directory
\* tmp beside the shards of m (t plays no part).
ForeignKinds == {"name", "locked", "dir"}

\* find_latest_local_block: the highest file stem of the numeric shards, 0
\* when there is none.  A directory whose name is not all digits is passed
\* over, int("foo") raises a ValueError that is caught, and iterdir() of a
\* shard that may not be listed raises a PermissionError that is not.
find_latest_local_block(c, f) ==
    IF \E x \in f : x[1] = "locked"
    THEN Raised
    ELSE Returned(SetMax({p[3] : p \in c}))

\* check_chunk
check_chunk(c, expected_blocks) ==
    LET Missing(bn) == cache_path(bn) \notin c
    IN  SelectSeq(expected_blocks, Missing)

\* the variant that scans range(thousands_base, thousands_base + 1000)
blocks_in_chunk_shifted(tb, mb, lat) ==
    LET n == Max2(0, Min2(THOUSAND, lat - tb + 1))
        InDir(bn) == expected_dir(bn) = <<mb, tb>>
    IN  SelectSeq([k \in 1..n |-> tb + k - 1], InDir)

\* blocks_in_chunk: range(thousands_base + 1, thousands_base + 1001), left at
\* the first bn > latest, kept where expected_dir(bn) is this directory
blocks_in_chunk(tb, mb, lat) ==
    LET n == Max2(0, Min2(THOUSAND, lat - tb))
        InDir(bn) == expected_dir(bn) = <<mb, tb>>
    IN  SelectSeq([k \in 1..n |-> tb + k], InDir)

Start == args_start[1]

\* main, lines 166-167
millions_start == IF Start > 0 THEN ((Start - 1) \div MILLION) * MILLION ELSE 0
millions_end == IF latest > 0 THEN ((latest - 1) \div MILLION) * MILLION ELSE 0

\* main, lines 171-172
t_start(mb) == IF Start > 0 THEN Max2(((Start - 1) \div THOUSAND) * THOUSAND, mb) ELSE mb
t_end(mb) == Min2(mb + 999000, ((latest - 1) \div THOUSAND) * THOUSAND)

\* main, line 221
fixable(miss, c) == SelectSeq(miss, LAMBDA bn : bn >= s3_start(c))

SeqRange(s) == {s[k] : k \in 1..Len(s)}

\* how many heights the small repair ranges span
RepairSpan == 3

\* the runs of the scanner that are explored: the arguments, the heights whose
\* entries exist beforehand (base) and those whose entries may (probe)
ScanRuns ==
    { [start |-> <<1>>, end |-> 2500, fix |-> FALSE, chain |-> "mainnet",
       base |-> {}, probe |-> {1, 1000, 1001, 2500},
       foreign |-> {}],
      [start |-> <<1500>>, end |-> 2500, fix |-> FALSE, chain |-> "mainnet",
       base |-> {}, probe |-> {1200, 1500, 2000, 2500},
       foreign |-> {}],
      [start |-> <<999500>>, end |-> 1000500, fix |-> FALSE, chain |-> "mainnet",
       base |-> {}, probe |-> {999400, 999500, 1000000, 1000001},
       foreign |-> {}],
      [start |-> <<1001>>, end |-> 1000 + RepairSpan, fix |-> TRUE, chain |-> "mainnet",
       base |-> {}, probe |-> 1001..(1000 + RepairSpan),
       foreign |-> {}],
      [start |-> <<1001>>, end |-> 1002, fix |-> TRUE, chain |-> "testnet",
       base |-> {}, probe |-> {1001},
       foreign |-> {}],
      [start |-> <<1002>>, end |-> 1003, fix |-> TRUE, chain |-> "mainnet",
       base |-> {}, probe |-> {1001, 1002, 1003},
       foreign |-> {}],
      [start |-> <<>>, end |-> 18000002, fix |-> TRUE, chain |-> "testnet",
       base |-> 17999001..18000002 \ {17999500, 18000000, 18000001},
       probe |-> {17999500, 18000000, 18000001},
       foreign |-> {}],
      [start |-> <<1>>, end |-> 0, fix |-> FALSE, chain |-> "mainnet",
       base |-> {}, probe |-> {1, 2, 1001},
       foreign |-> {<<"name", 0, 1000>>, <<"locked", 0, 0>>, <<"dir", 0, 0>>}],
      [start |-> <<0>>, end |-> 3, fix |-> FALSE, chain |-> "mainnet",
       base |-> {}, probe |-> {1, 3},
       foreign |-> {}] }

ScanInit ==
    /\ \E run \in ScanRuns :
          /\ args_start = run.start
          /\ args_end = run.end
          /\ args_fix = run.fix
          /\ chain = run.chain
          /\ \E present \in SUBSET run.probe :
                cache = {cache_path(x) : x \in run.base \cup present}
          /\ foreign \in SUBSET run.foreign
    /\ partial = {}
    /\ scan_pc = "start"
    /\ latest = 0
    /\ m_iter = 0
    /\ t_iter = 0
    /\ millions_base = -1
    /\ thousands_base = -1
    /\ expected = <<>>
    /\ total_expected = 0
    /\ total_missing = 0
    /\ all_missing = <<>>
    /\ incomplete_chunks = <<>>
    /\ dl_missing = <<>>
    /\ dl_todo = {}
    /\ dl_results = {}
    /\ dl_started = <<>>
    /\ downloaded = 0
    /\ failed = 0
    /\ exit_code = -1

scanLoopVars == <<m_iter, t_iter, millions_base, thousands_base, expected,
                  total_expected, total_missing, all_missing, incomplete_chunks>>
scanArgs == <<args_end, args_fix, chain>>
dlVars == <<dl_missing, dl_todo, dl_results, dl_started, downloaded, failed>>

\* main, lines 150-167: the default start, the latest height, the outer range
ScanBegin ==
    /\ scan_pc = "start"
    /\ args_start' = IF args_start = <<>> THEN <<s3_start(chain)>> ELSE args_start
    /\ IF args_end > 0 THEN TRUE ELSE ~find_latest_local_block(cache, foreign).raised
    /\ latest' = IF args_end > 0 THEN args_end
                 ELSE find_latest_local_block(cache, foreign).value
    /\ m_iter' = LET s == args_start'[1]
                 IN  IF s > 0 THEN ((s - 1) \div MILLION) * MILLION ELSE 0
    /\ scan_pc' = "outer"
    /\ UNCHANGED <<t_iter, millions_base, thousands_base, expected, total_expected,
                   total_missing, all_missing, incomplete_chunks>>
    /\ UNCHANGED <<scanArgs, dlVars, cache, partial, foreign, exit_code>>
    /\ UNCHANGED notScan

\* main, lines 169-172: the outer loop takes its next millions_base
ScanOuter ==
    /\ scan_pc = "outer"
    /\ m_iter <= millions_end
    /\ millions_base' = m_iter
    /\ m_iter' = m_iter + MILLION
    /\ t_iter' = t_start(m_iter)
    /\ scan_pc' = "inner"
    /\ UNCHANGED <<thousands_base, expected, total_expected, total_missing,
                   all_missing, incomplete_chunks>>
    /\ UNCHANGED <<args_start, scanArgs, latest, dlVars, cache, partial, foreign, exit_code>>
    /\ UNCHANGED notScan

\* main, lines 174-187: one chunk
ScanChunk ==
    /\ scan_pc = "inner"
    /\ t_iter <= t_end(millions_base)
    /\ thousands_base' = t_iter
    /\ t_iter' = t_iter + THOUSAND
    /\ LET exp == blocks_in_chunk(t_iter, millions_base, latest)
           miss == check_chunk(cache, exp)
       IN  /\ expected' = exp
           /\ total_expected' = total_expected + Len(exp)
           /\ IF miss # <<>>
              THEN /\ total_missing' = total_missing + Len(miss)
                   /\ all_missing' = all_missing \o miss
                   /\ incomplete_chunks' =
                        Append(incomplete_chunks,
                               <<millions_base, t_iter, Len(miss), Len(exp)>>)
              ELSE UNCHANGED <<total_missing, all_missing, incomplete_chunks>>
    /\ UNCHANGED <<scan_pc, m_iter, millions_base>>
    /\ UNCHANGED <<args_start, scanArgs, latest, dlVars, cache, partial, foreign, exit_code>>
    /\ UNCHANGED notScan

\* main, lines 189-193: the inner loop is exhausted, progress is printed
ScanProgress ==
    /\ scan_pc = "inner"
    /\ t_iter > t_end(millions_base)
    /\ scan_pc' = "outer"
    /\ UNCHANGED <<scanLoopVars, args_start, scanArgs, latest, dlVars, cache, partial, foreign, exit_code>>
    /\ UNCHANGED notScan

\* main, lines 195-228: the report, and with --fix the call of download_blocks
\* (lines 115-117: every fixable height is submitted to the pool)
ScanReport ==
    /\ scan_pc = "outer"
    /\ m_iter > millions_end
    /\ LET fx == fixable(all_missing, chain)
       IN  IF args_fix /\ all_missing # <<>> /\ fx # <<>>
           THEN /\ dl_missing' = fx
                /\ dl_todo' = SeqRange(fx)
                /\ scan_pc' = "download"
           ELSE /\ UNCHANGED <<dl_missing, dl_todo>>
                /\ scan_pc' = "return"
    /\ UNCHANGED <<dl_results, dl_started, downloaded, failed>>
    /\ UNCHANGED <<scanLoopVars, args_start, scanArgs, latest, cache, partial, foreign, exit_code>>
    /\ UNCHANGED notScan

\* what one download task can come to: the object is fetched and written
\* whole; get_object or read raises before the file is opened; write_bytes
\* opens the file and raises before every byte is written
DownloadOutcomes == {"written", "failed", "torn"}

\* a worker that puts a failed task back on the pool
DownloadOne_retrying(bn, outcome) ==
    /\ scan_pc = "download"
    /\ bn \in dl_todo
    /\ dl_started' = Append(dl_started, bn)
    /\ dl_todo' = IF outcome = "written" THEN dl_todo \ {bn} ELSE dl_todo
    /\ dl_results' = IF outcome = "written" THEN dl_results \cup {<<bn, TRUE>>} ELSE dl_results
    /\ cache' = IF outcome = "failed" THEN cache ELSE cache \cup {cache_path(bn)}
    /\ partial' = IF outcome = "torn" THEN partial \cup {cache_path(bn)}
                  ELSE IF outcome = "written" THEN partial \ {cache_path(bn)} ELSE partial
    /\ UNCHANGED foreign
    /\ Len(dl_started) < 2 * Len(dl_missing)
    /\ UNCHANGED <<dl_missing, downloaded, failed, scan_pc>>
    /\ UNCHANGED <<scanLoopVars, args_start, scanArgs, latest, exit_code>>
    /\ UNCHANGED notScan

\* download_one, lines 102-113, run by a pool worker: it returns (bn, True)
\* after write_bytes and (bn, False) when any call raised
DownloadOne(bn, outcome) ==
    /\ scan_pc = "download"
    /\ bn \in dl_todo
    /\ dl_started' = Append(dl_started, bn)
    /\ dl_todo' = dl_todo \ {bn}
    /\ dl_results' = dl_results \cup {<<bn, outcome = "written">>}
    /\ cache' = IF outcome = "failed" THEN cache ELSE cache \cup {cache_path(bn)}
    /\ partial' = IF outcome = "torn" THEN partial \cup {cache_path(bn)}
                  ELSE IF outcome = "written" THEN partial \ {cache_path(bn)} ELSE partial
    /\ UNCHANGED foreign
    /\ UNCHANGED <<dl_missing, downloaded, failed, scan_pc>>
    /\ UNCHANGED <<scanLoopVars, args_start, scanArgs, latest, exit_code>>
    /\ UNCHANGED notScan

\* download_blocks, lines 118-123: the coordinator consumes one completed future
DownloadCollect ==
    /\ scan_pc = "download"
    /\ \E r \in dl_results :
          /\ dl_results' = dl_results \ {r}
          /\ IF r[2]
             THEN downloaded' = downloaded + 1 /\ UNCHANGED failed
             ELSE failed' = failed + 1 /\ UNCHANGED downloaded
    /\ UNCHANGED <<dl_missing, dl_todo, dl_started, scan_pc, cache, partial, foreign>>
    /\ UNCHANGED <<scanLoopVars, args_start, scanArgs, latest, exit_code>>
    /\ UNCHANGED notScan

\* download_blocks, line 128: every future has been consumed
DownloadReturn ==
    /\ scan_pc = "download"
    /\ dl_todo = {}
    /\ dl_results = {}
    /\ scan_pc' = "return"
    /\ UNCHANGED <<dlVars, cache, partial, foreign>>
    /\ UNCHANGED <<scanLoopVars, args_start, scanArgs, latest, exit_code>>
    /\ UNCHANGED notScan

\* main, line 230, and sys.exit(main())
ScanReturn ==
    /\ scan_pc = "return"
    /\ exit_code' = IF total_missing > 0 THEN 1 ELSE 0
    /\ scan_pc' = "exit"
    /\ UNCHANGED <<dlVars, cache, partial, foreign>>
    /\ UNCHANGED <<scanLoopVars, args_start, scanArgs, latest>>
    /\ UNCHANGED notScan

\* main, line 156: find_latest_local_block raises and nothing catches it, the
\* interpreter prints the traceback and exits with status 1
ScanAbort ==
    /\ scan_pc = "start"
    /\ args_end <= 0
    /\ find_latest_local_block(cache, foreign).raised
    /\ scan_pc' = "aborted"
    /\ exit_code' = 1
    /\ UNCHANGED <<scanLoopVars, args_start, scanArgs, latest, dlVars, cache, partial, foreign>>
    /\ UNCHANGED notScan

ScanIdle ==
    /\ scan_pc = "idle"
    /\ args_start = <<>>
    /\ args_end = 0
    /\ args_fix = FALSE
    /\ chain = "testnet"
    /\ latest = 0
    /\ m_iter = 0
    /\ t_iter = 0
    /\ millions_base = -1
    /\ thousands_base = -1
    /\ expected = <<>>
    /\ total_expected = 0
    /\ total_missing = 0
    /\ all_missing = <<>>
    /\ incomplete_chunks = <<>>
    /\ dl_missing = <<>>
    /\ dl_todo = {}
    /\ dl_results = {}
    /\ dl_started = <<>>
    /\ downloaded = 0
    /\ failed = 0
    /\ exit_code = -1

ScanNext ==
    \/ ScanBegin
    \/ ScanAbort
    \/ ScanOuter
    \/ ScanChunk
    \/ ScanProgress
    \/ ScanReport
    \/ \E bn \in dl_todo, outcome \in DownloadOutcomes : DownloadOne(bn, outcome)
    \/ DownloadCollect
    \/ DownloadReturn
    \/ ScanReturn

-----------------------------------------------------------------------------
(* BoundaryDownloader: download_boundary_blocks.py *)

\* CHAIN_CONFIG[...]["default_start"] and ["default_end"]
DEFAULT_START_TESTNET == 18000000
DEFAULT_END_TESTNET == 46000000
DEFAULT_START_MAINNET == 1
DEFAULT_END_MAINNET == 28000000

default_start(c) == IF c = "testnet" THEN DEFAULT_START_TESTNET ELSE DEFAULT_START_MAINNET
default_end(c) == IF c = "testnet" THEN DEFAULT_END_TESTNET ELSE DEFAULT_END_MAINNET

\* find_missing_blocks: range(start, end + 1, 1000), kept where the entry is absent
boundary_find_missing(c, start, end) ==
    LET n == IF end >= start THEN (end - start) \div THOUSAND + 1 ELSE 0
        Absent(x) == boundary_cache_path(x) \notin c
    IN  SelectSeq([k \in 1..n |-> start + (k - 1) * THOUSAND], Absent)

\* the runs of the boundary downloader that are explored: the arguments and
\* the heights whose entries may exist beforehand
BoundaryRuns ==
    { [start |-> <<1000>>, end |-> <<3000>>, chain |-> "mainnet", dry_run |-> FALSE,
       probe |-> {1000, 2000, 3000}],
      [start |-> <<1>>, end |-> <<2500>>, chain |-> "mainnet", dry_run |-> FALSE,
       probe |-> {1, 1001, 2000}],
      [start |-> <<1000>>, end |-> <<3000>>, chain |-> "mainnet", dry_run |-> TRUE,
       probe |-> {2000}],
      [start |-> <<>>, end |-> <<18001000>>, chain |-> "testnet", dry_run |-> FALSE,
       probe |-> {18000000}],
      [start |-> <<27999001>>, end |-> <<>>, chain |-> "mainnet", dry_run |-> FALSE,
       probe |-> {27999001}],
      [start |-> <<>>, end |-> <<1001>>, chain |-> "mainnet", dry_run |-> FALSE,
       probe |-> {1, 1000, 1001}] }

BoundaryInit ==
    /\ \E run \in BoundaryRuns :
          /\ bnd_start = run.start
          /\ bnd_end = run.end
          /\ bnd_chain = run.chain
          /\ bnd_dry_run = run.dry_run
          /\ \E present \in SUBSET run.probe :
                cache = {boundary_cache_path(x) : x \in present}
    /\ partial = {}
    /\ foreign = {}
    /\ bnd_pc = "start"
    /\ bnd_missing = <<>>
    /\ bnd_todo = {}
    /\ bnd_results = {}
    /\ bnd_started = <<>>
    /\ bnd_downloaded = 0
    /\ bnd_failed = 0

bndArgs == <<bnd_chain, bnd_dry_run>>
bndPool == <<bnd_todo, bnd_results, bnd_started, bnd_downloaded, bnd_failed>>

\* main, lines 84-105: the default range, the scan, the early return, and
\* every missing height submitted to the pool
BoundaryScan ==
    /\ bnd_pc = "start"
    /\ bnd_start' = IF bnd_start = <<>> THEN <<default_start(bnd_chain)>> ELSE bnd_start
    /\ bnd_end' = IF bnd_end = <<>> THEN <<default_end(bnd_chain)>> ELSE bnd_end
    /\ bnd_missing' = boundary_find_missing(cache, bnd_start'[1], bnd_end'[1])
    /\ IF bnd_dry_run \/ bnd_missing' = <<>>
       THEN bnd_pc' = "exit" /\ UNCHANGED bnd_todo
       ELSE bnd_pc' = "download" /\ bnd_todo' = SeqRange(bnd_missing')
    /\ UNCHANGED <<bndArgs, bnd_results, bnd_started, bnd_downloaded, bnd_failed>>
    /\ UNCHANGED <<cache, partial, foreign>>
    /\ UNCHANGED notBoundary

\* download_block, lines 52-65, run by a pool worker: it returns success
\* after write_bytes and failure when any call raised
BoundaryDownloadOne(x, outcome) ==
    /\ bnd_pc = "download"
    /\ x \in bnd_todo
    /\ bnd_started' = Append(bnd_started, x)
    /\ bnd_todo' = bnd_todo \ {x}
    /\ bnd_results' = bnd_results \cup {<<x, outcome = "written">>}
    /\ cache' = IF outcome = "failed" THEN cache ELSE cache \cup {boundary_cache_path(x)}
    /\ partial' = IF outcome = "torn" THEN partial \cup {boundary_cache_path(x)}
                  ELSE IF outcome = "written" THEN partial \ {boundary_cache_path(x)}
                  ELSE partial
    /\ UNCHANGED foreign
    /\ UNCHANGED <<bnd_pc, bnd_start, bnd_end, bnd_missing, bnd_downloaded, bnd_failed, bndArgs>>
    /\ UNCHANGED notBoundary

\* main, lines 106-115: the coordinator consumes one completed future
BoundaryCollect ==
    /\ bnd_pc = "download"
    /\ \E r \in bnd_results :
          /\ bnd_results' = bnd_results \ {r}
          /\ IF r[2]
             THEN bnd_downloaded' = bnd_downloaded + 1 /\ UNCHANGED bnd_failed
             ELSE bnd_failed' = bnd_failed + 1 /\ UNCHANGED bnd_downloaded
    /\ UNCHANGED <<bnd_pc, bnd_start, bnd_end, bnd_missing, bnd_todo, bnd_started, bndArgs>>
    /\ UNCHANGED <<cache, partial, foreign>>
    /\ UNCHANGED notBoundary

\* main, lines 117-119: every future has been consumed, the totals are printed
BoundaryDone ==
    /\ bnd_pc = "download"
    /\ bnd_todo = {}
    /\ bnd_results = {}
    /\ bnd_pc' = "exit"
    /\ UNCHANGED <<bnd_start, bnd_end, bnd_missing, bndArgs, bndPool>>
    /\ UNCHANGED <<cache, partial, foreign>>
    /\ UNCHANGED notBoundary

BoundaryIdle ==
    /\ bnd_pc = "idle"
    /\ bnd_start = <<>>
    /\ bnd_end = <<>>
    /\ bnd_chain = "testnet"
    /\ bnd_dry_run = FALSE
    /\ bnd_missing = <<>>
    /\ bnd_todo = {}
    /\ bnd_results = {}
    /\ bnd_started = <<>>
    /\ bnd_downloaded = 0
    /\ bnd_failed = 0

BoundaryNext ==
    \/ BoundaryScan
    \/ \E x \in bnd_todo, outcome \in DownloadOutcomes : BoundaryDownloadOne(x, outcome)
    \/ BoundaryCollect
    \/ BoundaryDone

-----------------------------------------------------------------------------
(* LiveChainFetcher: fetch_blocks_rpc.py *)

RETRY_DELAY == 2
MAX_RETRIES == 5
\* main, line 494: the cap of the inter-batch delay, in seconds
MAX_DELAY == 120
\* main, line 489: the success streak after which the delay relaxes
RELAX_AFTER == 5

\* the most batches a run of the model issues
PaceBatches == 7

\* current_delay is a float.  It is kept as an integer count of units of
\* 1/DelayScale second: a run relaxes the delay (x 0.8 = x 4/5) at most once
\* per batch, so with DelayScale = 5^PaceBatches every value the run computes
\* is a whole number of units and the arithmetic below is exact.
DelayScale == 5 ^ PaceBatches

Seconds(n) == n * DelayScale

\* decimal digits of a file stem, most significant first
RECURSIVE Digits(_)
Digits(n) == IF n < 10 THEN <<n>> ELSE Append(Digits(n \div 10), n % 10)

\* f"{a}.rmp.lz4" < f"{b}.rmp.lz4" as Python orders str: at the first place
\* the stems differ the smaller digit decides; if one stem is a prefix of the
\* other its "." is compared with a digit, and "." sorts before every digit
NameLess(a, b) ==
    LET da == Digits(a)
        db == Digits(b)
        n == Min2(Len(da), Len(db))
        diff == {k \in 1..n : da[k] # db[k]}
    IN  IF diff = {}
        THEN Len(da) < Len(db)
        ELSE LET k == CHOOSE x \in diff : \A y \in diff : x <= y
             IN  da[k] < db[k]

\* find_cache_latest: the last directory in numeric order at both levels
\* (names that are not all digits, such as "-1000" or "tmp", are left out),
\* then the last file name of sorted(files).  os.listdir of a shard that may
\* not be listed raises PermissionError; "foo.rmp.lz4" sorts after every
\* name that starts with a digit, and int("foo") raises ValueError.
find_cache_latest(c, f) ==
    LET millions == {p[1] : p \in {q \in c : q[1] >= 0}} \cup {x[2] : x \in f}
    IN  IF millions = {} THEN Returned(0)
        ELSE LET latest_m == CHOOSE x \in millions : \A y \in millions : y <= x
                 thousands ==
                     {p[2] : p \in {q \in c : q[1] = latest_m /\ q[2] >= 0}}
                     \cup {x[3] : x \in {y \in f : y[1] # "dir" /\ y[2] = latest_m}}
             IN  IF thousands = {} THEN Returned(0)
                 ELSE LET latest_t == CHOOSE x \in thousands : \A y \in thousands : y <= x
                          files == {p[3] : p \in {q \in c : q[1] = latest_m /\ q[2] = latest_t}}
                      IN  IF <<"locked", latest_m, latest_t>> \in f
                          THEN Raised
                          ELSE IF <<"name", latest_m, latest_t>> \in f
                          THEN Raised
                          ELSE IF files = {} THEN Returned(0)
                          ELSE Returned(CHOOSE x \in files :
                                            \A y \in files : y = x \/ NameLess(y, x))

\* find_missing_blocks
find_missing_blocks(c, start, end) ==
    LET n == Max2(0, end - start + 1)
        Absent(bnum) == block_path(bnum) \notin c
    IN  SelectSeq([k \in 1..n |-> start + k - 1], Absent)

\* main, lines 450-454: the loop of the branch without --scan-gaps
missing_without_scan(c, start, end) ==
    LET n == Max2(0, end - start + 1)
        Absent(bnum) == block_path(bnum) \notin c
    IN  SelectSeq([k \in 1..n |-> start + k - 1], Absent)

\* a linear backoff in place of the doubling one
retry_sleep_linear(k) == RETRY_DELAY * (k + 1)

\* rpc_call, line 266: the sleep after failed attempt k
retry_sleep(k) == RETRY_DELAY * (2 ^ k)

\* a relaxation that waits for a streak longer than RELAX_AFTER
relaxed_delay_late(ok, delay, base) ==
    IF ok > RELAX_AFTER /\ delay > base THEN Max2(base, (delay * 4) \div 5) ELSE delay

\* main, lines 489-490: the delay after a successful batch, ok being the
\* streak that already counts it
relaxed_delay(ok, delay, base) ==
    IF ok >= RELAX_AFTER /\ delay > base THEN Max2(base, (delay * 4) \div 5) ELSE delay

\* main, line 494: the delay after a failed batch
backoff_delay(delay) == Min2(delay * 2, Seconds(MAX_DELAY))

\* what one HTTP exchange of rpc_call can yield: a JSON array, a JSON array
\* one element of which has no "id" member, a JSON object with an "error"
\* member, a JSON object with neither "error" nor "id", a transport failure
\* (connection error, timeout, HTTP error status: a
\* requests.RequestException), or a body that is not JSON
Responses == {"list", "stray", "error_obj", "object", "transport", "decode"}
Returning == {"list", "stray", "object"}
Failing == {"error_obj", "transport", "decode"}

\* the class of the exception rpc_call re-raises: resp.json() raises a
\* subclass of requests.RequestException since requests 2.27 and a plain
\* json.JSONDecodeError (a ValueError) before
RaisedAs(resp) ==
    IF resp = "decode" THEN {"RequestException", "JSONDecodeError"} ELSE {"RequestException"}

FetchStartArg == fetch_start[1]
FetchEndArg == fetch_end[1]

\* main, line 480
Batch == SubSeq(missing, i + 1, Min2(i + batch_size, Len(missing)))

\* ---- JSON values

\* A hex string is kept as the sequence of the characters that follow "0x":
\* 0..15 for a hexadecimal digit, NotHex for any other character.
NotHex == 16

\* the byte width rpc_to_nanoreth gives gasLimit
GasLimitBytes == 8

\* 2^64 - 1 and 2^64 as hex strings, and a string that is no number
HexMax64 == [k \in 1..16 |-> 15]
HexTwoTo64 == [k \in 1..17 |-> IF k = 1 THEN 1 ELSE 0]
HexMalformed == <<1, NotHex>>

\* hex(n) without its "0x"
RECURSIVE HexOf(_)
HexOf(n) == IF n < 16 THEN <<n>> ELSE Append(HexOf(n \div 16), n % 16)

\* int(h, 16) of a string of hexadecimal digits
RECURSIVE IntOf(_)
IntOf(hs) ==
    IF hs = <<>> THEN 0 ELSE 16 * IntOf(SubSeq(hs, 1, Len(hs) - 1)) + hs[Len(hs)]

\* a transaction object: its "type" member (NoType when it has none) and
\* which of the members that depend on the type it has; maxFeePerGas stands
\* for maxPriorityFeePerGas too
NoType == "none"
TxMembers == {"chainId", "gasPrice", "maxFeePerGas"}
Tx(type, has) == [type |-> type, has |-> has]

\* a JSON value: null, a block object (of whose members number, gasLimit and
\* transactions are kept), an array of receipt objects (each kept as its
\* cumulativeGasUsed), or a quantity string
JNull == [tag |-> "null", number |-> <<>>, gasLimit |-> <<>>, transactions |-> <<>>,
          receipts |-> <<>>, quantity |-> <<>>]
JBlock(n, g, txs) == [tag |-> "block", number |-> n, gasLimit |-> g, transactions |-> txs,
                      receipts |-> <<>>, quantity |-> <<>>]
JReceipts(rs) == [tag |-> "array", number |-> <<>>, gasLimit |-> <<>>, transactions |-> <<>>,
                  receipts |-> rs, quantity |-> <<>>]
JQuantity(hs) == [tag |-> "quantity", number |-> <<>>, gasLimit |-> <<>>,
                  transactions |-> <<>>, receipts |-> <<>>, quantity |-> hs]

\* one response object of an array; id is NoId when it has no "id" member,
\* result is JNull when it has no "result" member
NoId == -1
Response(n, err, res) == [id |-> n, error |-> err, result |-> res]
Stray == Response(NoId, FALSE, JNull)

\* ---- transcoding

\* the digits of a hex string from its first non-zero one
RECURSIVE Significant(_)
Significant(hs) ==
    IF hs # <<>> /\ Head(hs) = 0 THEN Significant(Tail(hs)) ELSE hs

HexDigits(hs) == \A k \in 1..Len(hs) : hs[k] # NotHex

\* a conversion that keeps the low bytes of a value too wide for its field
hex_to_bytes_wrapping(hs, length) ==
    IF ~HexDigits(hs)
    THEN Raised
    ELSE LET sig == Significant(hs)
             low == IF Len(sig) > 2 * length
                    THEN SubSeq(sig, Len(sig) - 2 * length + 1, Len(sig))
                    ELSE sig
             pad == 2 * length - Len(low)
             nib == [k \in 1..(2 * length) |-> IF k <= pad THEN 0 ELSE low[k - pad]]
         IN  Returned([k \in 1..length |-> 16 * nib[2 * k - 1] + nib[2 * k]])

\* hex_to_bytes: int(h, 16) raises ValueError on a character that is no hex
\* digit, to_bytes(length, "big") raises OverflowError on a value of more
\* than length bytes; the result is the big-endian bytes
hex_to_bytes(hs, length) ==
    IF ~HexDigits(hs)
    THEN Raised
    ELSE LET sig == Significant(hs)
             pad == 2 * length - Len(sig)
             nib == [k \in 1..(2 * length) |-> IF k <= pad THEN 0 ELSE sig[k - pad]]
         IN  IF Len(sig) > 2 * length
             THEN Raised
             ELSE Returned([k \in 1..length |-> 16 * nib[2 * k - 1] + nib[2 * k]])

\* PRECOMPILE_TRANSITIONS, newest first: <<threshold, address>>, the address
\* as the number its 20 bytes spell (0x810 .. 0x813)
PRECOMPILE_TRANSITIONS ==
    << <<44868476, 2067>>, <<42675776, 2066>>, <<41121887, 2065>>, <<0, 2064>> >>

\* a lookup that takes the last entry whose threshold the height has reached
get_highest_precompile_oldest(block_num) ==
    LET reached == {k \in 1..Len(PRECOMPILE_TRANSITIONS) :
                       block_num >= PRECOMPILE_TRANSITIONS[k][1]}
    IN  IF reached = {}
        THEN PRECOMPILE_TRANSITIONS[Len(PRECOMPILE_TRANSITIONS)][2]
        ELSE PRECOMPILE_TRANSITIONS[CHOOSE k \in reached : \A j \in reached : j <= k][2]

\* get_highest_precompile: the address of the first entry whose threshold
\* the height has reached, the last entry's when there is none
get_highest_precompile(block_num) ==
    LET reached == {k \in 1..Len(PRECOMPILE_TRANSITIONS) :
                       block_num >= PRECOMPILE_TRANSITIONS[k][1]}
    IN  IF reached = {}
        THEN PRECOMPILE_TRANSITIONS[Len(PRECOMPILE_TRANSITIONS)][2]
        ELSE PRECOMPILE_TRANSITIONS[CHOOSE k \in reached : \A j \in reached : k <= j][2]

\* rpc_to_nanoreth, lines 126-193: the variant one transaction is encoded
\* as; tx["chainId"], tx["gasPrice"], tx["maxFeePerGas"] raise KeyError when
\* the member is not there
tx_variant(tx) ==
    LET tx_type == IF tx.type = NoType THEN "0x0" ELSE tx.type
    IN  IF tx_type = "0x2"
        THEN IF {"chainId", "maxFeePerGas"} \subseteq tx.has
             THEN Returned("Eip1559") ELSE Raised
        ELSE IF tx_type = "0x1"
        THEN IF {"chainId", "gasPrice"} \subseteq tx.has
             THEN Returned("Eip2930") ELSE Raised
        ELSE IF "gasPrice" \in tx.has THEN Returned("Legacy") ELSE Raised

\* rpc_to_nanoreth: of the header the gasLimit, of each transaction its
\* variant, of each receipt its cumulative_gas_used (int(..., 16), kept as
\* its significant digits), and the highest precompile address of
\* int(b["number"], 16)
rpc_to_nanoreth(block_json, receipts_json) ==
    LET bnum == IntOf(block_json.number)
        gas == hex_to_bytes(block_json.gasLimit, GasLimitBytes)
        txs == [k \in 1..Len(block_json.transactions) |->
                   tx_variant(block_json.transactions[k])]
    IN  IF \/ gas.raised
           \/ \E k \in 1..Len(txs) : txs[k].raised
           \/ \E k \in 1..Len(receipts_json) :
                  receipts_json[k] = <<>> \/ ~HexDigits(receipts_json[k])
        THEN Raised
        ELSE Returned([gasLimit |-> gas.value,
                       transactions |-> [k \in 1..Len(txs) |-> txs[k].value],
                       receipts |-> [k \in 1..Len(receipts_json) |->
                                        Significant(receipts_json[k])],
                       highest_precompile_address |-> get_highest_precompile(bnum)])

\* ---- fetch_and_write_batch

\* lines 302-319: the request list, two requests per height in batch order
batch_requests(nums) ==
    [k \in 1..(2 * Len(nums)) |->
        LET idx == (k - 1) \div 2
        IN  [method |-> IF (k - 1) % 2 = 0 THEN "eth_getBlockByNumber"
                                          ELSE "eth_getBlockReceipts",
             height |-> nums[idx + 1],
             id |-> IF (k - 1) % 2 = 0 THEN idx * 2 ELSE idx * 2 + 1]]

\* a demultiplexer that pairs the array's elements with the requests by position
by_position(res) ==
    [n \in 0..(Len(res) - 1) |-> res[n + 1]]

\* line 324: {r["id"]: r for r in results}; of two elements with one id the
\* later stays.  Every element has an id here (KeyError otherwise).
by_id(res) ==
    [n \in {res[k].id : k \in 1..Len(res)} |->
        LET at == {k \in 1..Len(res) : res[k].id = n}
        IN  res[CHOOSE k \in at : \A j \in at : j <= k]]

\* lines 329-333: by_id.get(n, {}).get("result")
ResultOf(d, n) == IF n \in DOMAIN d THEN d[n].result ELSE JNull

\* a loop body that takes absent receipts for a failure of the height
height_outcome_strict(d, idx, bnum, fails) ==
    LET block_data == ResultOf(d, idx * 2)
        receipts_data == ResultOf(d, idx * 2 + 1)
        converted == rpc_to_nanoreth(block_data, receipts_data.receipts)
    IN  IF block_data.tag = "null" \/ receipts_data.tag = "null"
        THEN [kind |-> "no_block", entry |-> <<>>]
        ELSE IF converted.raised
        THEN [kind |-> "not_converted", entry |-> <<>>]
        ELSE IF bnum \in fails
        THEN [kind |-> "torn", entry |-> <<>>]
        ELSE [kind |-> "written", entry |-> <<converted.value>>]

\* lines 329-355, the loop body for the idx-th height (counted from 0): what
\* it comes to, and the record it wrote if it wrote one whole.  fails are the
\* heights for which open or write raises after the file was created.
height_outcome(d, idx, bnum, fails) ==
    LET block_data == ResultOf(d, idx * 2)
        receipts_data == ResultOf(d, idx * 2 + 1)
        receipts_list == IF receipts_data.tag = "null" THEN <<>> ELSE receipts_data.receipts
        converted == rpc_to_nanoreth(block_data, receipts_list)
    IN  IF block_data.tag = "null"
        THEN [kind |-> "no_block", entry |-> <<>>]
        ELSE IF converted.raised
        THEN [kind |-> "not_converted", entry |-> <<>>]
        ELSE IF bnum \in fails
        THEN [kind |-> "torn", entry |-> <<>>]
        ELSE [kind |-> "written", entry |-> <<converted.value>>]

\* lines 323-357: the counts returned, the entries written whole (path and
\* record) and the paths left with a file that is not whole
fetch_and_write_batch(nums, res, fails) ==
    LET d == by_id(res)
        out == [k \in 1..Len(nums) |-> height_outcome(d, k - 1, nums[k], fails)]
        wr == {k \in 1..Len(nums) : out[k].kind = "written"}
        er == {k \in 1..Len(nums) : out[k].kind \in {"no_block", "not_converted", "torn"}}
    IN  [written |-> Cardinality(wr),
         errors |-> Cardinality(er),
         entries |-> {<<block_path(nums[k]), out[k].entry[1]>> : k \in wr},
         torn |-> {block_path(nums[k]) : k \in {j \in 1..Len(nums) : out[j].kind = "torn"}}]

\* ---- the live node

\* how the node answers eth_getBlockByNumber for a height: with no element
\* for the request, an error object, a null result, a block whose gasLimit
\* is 2^64 - 1, one whose gasLimit is 2^64, one whose gasLimit is no number
BlockAnswers == {"absent", "error", "null", "good", "wide", "malformed"}

\* how it answers eth_getBlockReceipts: with no element, an error object, a
\* null result, an empty array, an array of one receipt, an array of one
\* receipt whose cumulativeGasUsed is no number
ReceiptsAnswers == {"absent", "error", "null", "empty", "one", "malformed"}

Answer(b, r) == [block |-> b, receipts |-> r]

\* a node that has every block and its receipts
Healthy == {Answer("good", "one")}

\* a node that lacks some blocks
Lacking == {Answer("good", "one"), Answer("null", "null")}

\* a node whose array may lack elements
Sparse == {Answer("good", "one"), Answer("good", "absent"), Answer("absent", "one"),
           Answer("null", "null")}

\* every way a height can fail or succeed on its own
Mixed == {Answer("good", "one"), Answer("good", "absent"), Answer("good", "null"),
          Answer("absent", "one"), Answer("error", "error"), Answer("null", "empty"),
          Answer("wide", "one"), Answer("malformed", "one"), Answer("good", "malformed")}

\* the node has the block and the receipts of every height its answers are
\* not varied for
AnswerTo(height) ==
    IF height \in DOMAIN node_answers THEN node_answers[height] ELSE Answer("good", "one")

\* the node's block of a height with gasLimit g: it holds one fee-market
\* transaction
NodeBlock(height, g) == JBlock(HexOf(height), g, <<Tx("0x2", TxMembers)>>)

\* the response objects the node has for one request
Responding(req) ==
    LET a == AnswerTo(req.height)
    IN  IF req.method = "eth_getBlockByNumber"
        THEN CASE a.block = "absent" -> <<>>
               [] a.block = "error" -> <<Response(req.id, TRUE, JNull)>>
               [] a.block = "null" -> <<Response(req.id, FALSE, JNull)>>
               [] a.block = "good" -> <<Response(req.id, FALSE, NodeBlock(req.height, HexMax64))>>
               [] a.block = "wide" -> <<Response(req.id, FALSE, NodeBlock(req.height, HexTwoTo64))>>
               [] OTHER -> <<Response(req.id, FALSE, NodeBlock(req.height, HexMalformed))>>
        ELSE CASE a.receipts = "absent" -> <<>>
               [] a.receipts = "error" -> <<Response(req.id, TRUE, JNull)>>
               [] a.receipts = "null" -> <<Response(req.id, FALSE, JNull)>>
               [] a.receipts = "empty" -> <<Response(req.id, FALSE, JReceipts(<<>>))>>
               [] a.receipts = "one" -> <<Response(req.id, FALSE, JReceipts(<<HexOf(21000)>>))>>
               [] OTHER -> <<Response(req.id, FALSE, JReceipts(<<HexMalformed>>))>>

\* the node's array for a request list, in request order
RECURSIVE InRequestOrder(_)
InRequestOrder(reqs) ==
    IF reqs = <<>> THEN <<>>
    ELSE Responding(Head(reqs)) \o InRequestOrder(Tail(reqs))

Reverse(s) == [k \in 1..Len(s) |-> s[Len(s) + 1 - k]]
Rotate(s) == IF s = <<>> THEN s ELSE Append(Tail(s), Head(s))

\* the orders in which an array may arrive
Arrivals(s) == {s, Reverse(s), Rotate(s)}

\* the arrays rpc_call may return for an exchange that yields resp
Arrays(caller, resp) ==
    LET answer == IF caller = "tip"
                  THEN <<Response(0, FALSE, JQuantity(HexOf(node_tip)))>>
                  ELSE InRequestOrder(rpc_batch)
    IN  CASE resp = "list" -> Arrivals(answer)
          [] resp = "stray" -> Arrivals(Append(answer, Stray))
          [] OTHER -> {<<Stray>>}

HasId(res) == \A k \in 1..Len(res) : res[k].id # NoId

\* how many heights the batch of the demultiplexing run holds
DemuxHeights == 2

\* the runs of the fetcher that are explored: the arguments, the heights
\* whose entries may exist beforehand (probe), the chain tip, the heights the
\* node's answers are varied for and the answers they are drawn from (every
\* other height is answered with its block and receipts), the heights whose
\* write may fail, and what the tree may hold besides entries
FetchRuns ==
    { \* many batches of one height: the pacing of the batch loop
      [start |-> <<1>>, end |-> <<PaceBatches>>, batch_size |-> 1, delay |-> 5,
       dry_run |-> FALSE, scan_gaps |-> FALSE, probe |-> {}, tip |-> 0,
       heights |-> {}, answers |-> Healthy, failing |-> {},
       foreign |-> {}],
      \* baselines above the cap and at zero
      [start |-> <<1>>, end |-> <<2>>, batch_size |-> 1, delay |-> 200,
       dry_run |-> FALSE, scan_gaps |-> FALSE, probe |-> {}, tip |-> 0,
       heights |-> {}, answers |-> Healthy, failing |-> {},
       foreign |-> {}],
      [start |-> <<1>>, end |-> <<2>>, batch_size |-> 1, delay |-> 0,
       dry_run |-> FALSE, scan_gaps |-> FALSE, probe |-> {}, tip |-> 0,
       heights |-> {}, answers |-> Healthy, failing |-> {},
       foreign |-> {}],
      \* the default range: from the cache's latest to the chain tip
      [start |-> <<>>, end |-> <<>>, batch_size |-> 2, delay |-> 5,
       dry_run |-> FALSE, scan_gaps |-> FALSE, probe |-> {1, 2}, tip |-> 3,
       heights |-> {3}, answers |-> Lacking, failing |-> {},
       foreign |-> {}],
      \* the default start in a shard whose file names differ in length
      [start |-> <<>>, end |-> <<11>>, batch_size |-> 5, delay |-> 5,
       dry_run |-> FALSE, scan_gaps |-> FALSE, probe |-> {9, 10}, tip |-> 0,
       heights |-> {}, answers |-> Healthy, failing |-> {},
       foreign |-> {}],
      \* the default start in a tree that holds more than entries
      [start |-> <<>>, end |-> <<2>>, batch_size |-> 5, delay |-> 5,
       dry_run |-> FALSE, scan_gaps |-> FALSE, probe |-> {1, 1000, 1001}, tip |-> 0,
       heights |-> {}, answers |-> Healthy, failing |-> {},
       foreign |-> {<<"name", 0, 0>>, <<"name", 0, 1000>>, <<"locked", 0, 0>>,
                    <<"dir", 0, 0>>}],
      \* interior gaps across a bucket boundary, the default batch size
      [start |-> <<999>>, end |-> <<1002>>, batch_size |-> 5, delay |-> 5,
       dry_run |-> FALSE, scan_gaps |-> TRUE, probe |-> {999, 1000, 1001, 1002},
       tip |-> 0, heights |-> {1000}, answers |-> Lacking, failing |-> {},
       foreign |-> {}],
      \* height 0
      [start |-> <<0>>, end |-> <<1>>, batch_size |-> 5, delay |-> 5,
       dry_run |-> FALSE, scan_gaps |-> FALSE, probe |-> {}, tip |-> 0,
       heights |-> {}, answers |-> Healthy, failing |-> {},
       foreign |-> {}],
      \* --dry-run
      [start |-> <<1>>, end |-> <<3>>, batch_size |-> 5, delay |-> 5,
       dry_run |-> TRUE, scan_gaps |-> FALSE, probe |-> {2}, tip |-> 0,
       heights |-> {}, answers |-> Healthy, failing |-> {},
       foreign |-> {}],
      \* --dry-run over the default range
      [start |-> <<>>, end |-> <<>>, batch_size |-> 5, delay |-> 5,
       dry_run |-> TRUE, scan_gaps |-> TRUE, probe |-> {1, 2}, tip |-> 4,
       heights |-> {}, answers |-> Healthy, failing |-> {},
       foreign |-> {}],
      \* one batch of two heights that succeed and fail each on its own
      [start |-> <<1>>, end |-> <<2>>, batch_size |-> 2, delay |-> 5,
       dry_run |-> FALSE, scan_gaps |-> FALSE, probe |-> {}, tip |-> 0,
       heights |-> {1, 2}, answers |-> Mixed, failing |-> {},
       foreign |-> {}],
      \* one batch of DemuxHeights heights whose array may lack elements
      [start |-> <<1>>, end |-> <<DemuxHeights>>, batch_size |-> DemuxHeights, delay |-> 5,
       dry_run |-> FALSE, scan_gaps |-> FALSE, probe |-> {}, tip |-> 0,
       heights |-> 1..DemuxHeights, answers |-> Sparse, failing |-> {},
       foreign |-> {}],
      \* two batches of two heights on a file system that may fail
      [start |-> <<1>>, end |-> <<4>>, batch_size |-> 2, delay |-> 5,
       dry_run |-> FALSE, scan_gaps |-> FALSE, probe |-> {}, tip |-> 0,
       heights |-> {2}, answers |-> Lacking, failing |-> {1, 3},
       foreign |-> {}] }

FetchInitFrom(runs) ==
    /\ \E run \in runs :
          /\ fetch_start = run.start
          /\ fetch_end = run.end
          /\ batch_size = run.batch_size
          /\ args_delay = Seconds(run.delay)
          /\ dry_run = run.dry_run
          /\ scan_gaps = run.scan_gaps
          /\ node_tip = run.tip
          /\ \E present \in SUBSET run.probe : cache = {block_path(x) : x \in present}
          /\ partial = {}
          /\ foreign \in SUBSET run.foreign
          /\ node_answers \in [run.heights -> run.answers]
          /\ write_fails \in SUBSET run.failing
    /\ fetch_pc = "start"
    /\ missing = <<>>
    /\ i = 0
    /\ total_written = 0
    /\ total_errors = 0
    /\ current_delay = 0
    /\ consecutive_ok = 0
    /\ pace_slept = <<>>
    /\ block_nums = <<>>
    /\ issued = <<>>
    /\ rpc_batch = <<>>
    /\ results = <<>>
    /\ written = -1
    /\ errors = -1
    /\ rpc_caller = "none"
    /\ attempt = 0
    /\ rpc_requests = 0
    /\ rpc_slept = <<>>
    /\ rpc_last = "none"
    /\ rpc_exc = "none"
    /\ fetch_exit = -1
    /\ invocation = 1
    /\ left_behind = {}

FetchInit == FetchInitFrom(FetchRuns)

\* what no step of a run changes: the arguments, the node, the file system,
\* and what came before the invocation
fetchArgs == <<batch_size, args_delay, dry_run, scan_gaps, node_tip, node_answers, write_fails,
               invocation, left_behind>>
fetchLoop == <<missing, i, total_written, total_errors, current_delay, consecutive_ok,
               pace_slept>>
batchVars == <<block_nums, issued, written, errors>>
rpcVars == <<rpc_caller, rpc_batch, attempt, rpc_requests, rpc_slept, rpc_last, rpc_exc,
             results>>

\* rpc_call is entered with a request list: its loop starts at attempt 0
RpcEnter(caller, batch) ==
    /\ rpc_caller' = caller
    /\ rpc_batch' = batch
    /\ attempt' = 0
    /\ rpc_requests' = 0
    /\ rpc_slept' = <<>>
    /\ rpc_last' = "none"
    /\ rpc_exc' = "none"
    /\ results' = <<>>
    /\ fetch_pc' = "rpc"

\* main, lines 432-438: the default start, and the call of get_chain_tip
FetchStart ==
    /\ fetch_pc = "start"
    /\ IF fetch_start # <<>> THEN TRUE ELSE ~find_cache_latest(cache, foreign).raised
    /\ fetch_start' = IF fetch_start = <<>>
                      THEN <<find_cache_latest(cache, foreign).value + 1>>
                      ELSE fetch_start
    /\ IF fetch_end = <<>>
       THEN RpcEnter("tip", <<[method |-> "eth_blockNumber", height |-> 0, id |-> 0]>>)
       ELSE fetch_pc' = "missing" /\ UNCHANGED rpcVars
    /\ UNCHANGED <<fetch_end, fetchArgs, fetchLoop, batchVars, cache, partial, foreign, fetch_exit>>
    /\ UNCHANGED notFetch

\* rpc_call, lines 249-276: one pass of the retry loop
RpcAttempt(resp) ==
    /\ fetch_pc = "rpc"
    /\ rpc_requests' = rpc_requests + 1
    /\ rpc_last' = resp
    /\ IF resp \in Returning
       THEN /\ fetch_pc' = "returned"
            /\ results' \in Arrays(rpc_caller, resp)
            /\ UNCHANGED <<attempt, rpc_slept, rpc_exc>>
       ELSE IF attempt < MAX_RETRIES - 1
            THEN /\ rpc_slept' = Append(rpc_slept, retry_sleep(attempt))
                 /\ attempt' = attempt + 1
                 /\ UNCHANGED <<fetch_pc, rpc_exc, results>>
            ELSE /\ fetch_pc' = "raised"
                 /\ rpc_exc' \in RaisedAs(resp)
                 /\ UNCHANGED <<attempt, rpc_slept, results>>
    /\ UNCHANGED <<rpc_caller, rpc_batch, fetch_start, fetch_end, fetchArgs, fetchLoop,
                   batchVars, cache, partial, foreign, fetch_exit>>
    /\ UNCHANGED notFetch

\* get_chain_tip, line 366, and main, lines 438-439
TipReturn ==
    /\ fetch_pc = "returned"
    /\ rpc_caller = "tip"
    /\ results[1].result.tag = "quantity"
    /\ fetch_end' = <<IntOf(results[1].result.quantity)>>
    /\ fetch_pc' = "missing"
    /\ UNCHANGED <<fetch_start, fetchArgs, fetchLoop, batchVars, rpcVars, cache, partial, foreign,
                   fetch_exit>>
    /\ UNCHANGED notFetch

\* an exception no handler of main catches ends the run with a traceback:
\* get_chain_tip's rpc_call raising, int(results[0]["result"], 16) of an
\* object without a result (TypeError), r["id"] of an object without an id
\* (KeyError), a JSONDecodeError that is no RequestException, and line 434,
\* find_cache_latest raising
FetchAbort ==
    /\ \/ fetch_pc = "start" /\ fetch_start = <<>> /\ find_cache_latest(cache, foreign).raised
       \/ fetch_pc = "raised" /\ rpc_caller = "tip"
       \/ fetch_pc = "raised" /\ rpc_caller = "batch" /\ rpc_exc # "RequestException"
       \/ fetch_pc = "returned" /\ rpc_caller = "tip" /\ results[1].result.tag # "quantity"
       \/ fetch_pc = "returned" /\ rpc_caller = "batch" /\ ~HasId(results)
    /\ fetch_pc' = "aborted"
    /\ fetch_exit' = 1
    /\ UNCHANGED <<fetch_start, fetch_end, fetchArgs, fetchLoop, batchVars, rpcVars, cache,
                   partial, foreign>>
    /\ UNCHANGED notFetch

\* a main that fetches what a dry run found missing
FetchMissing_eager ==
    /\ fetch_pc = "missing"
    /\ LET m == IF scan_gaps
                THEN find_missing_blocks(cache, FetchStartArg, FetchEndArg)
                ELSE missing_without_scan(cache, FetchStartArg, FetchEndArg)
       IN  /\ missing' = m
           /\ IF m = <<>>
              THEN /\ fetch_pc' = "done"
                   /\ fetch_exit' = 0
                   /\ UNCHANGED <<total_written, total_errors, current_delay, consecutive_ok>>
              ELSE /\ fetch_pc' = "batch"
                   /\ total_written' = 0
                   /\ total_errors' = 0
                   /\ current_delay' = args_delay
                   /\ consecutive_ok' = 0
                   /\ UNCHANGED fetch_exit
    /\ UNCHANGED <<i, pace_slept, fetch_start, fetch_end, fetchArgs, batchVars, rpcVars,
                   cache, partial, foreign>>
    /\ UNCHANGED notFetch

\* main, lines 441-477: the missing list, the early returns, the loop's state
FetchMissing ==
    /\ fetch_pc = "missing"
    /\ LET m == IF scan_gaps
                THEN find_missing_blocks(cache, FetchStartArg, FetchEndArg)
                ELSE missing_without_scan(cache, FetchStartArg, FetchEndArg)
       IN  /\ missing' = m
           /\ IF dry_run \/ m = <<>>
              THEN /\ fetch_pc' = "done"
                   /\ fetch_exit' = 0
                   /\ UNCHANGED <<total_written, total_errors, current_delay, consecutive_ok>>
              ELSE /\ fetch_pc' = "batch"
                   /\ total_written' = 0
                   /\ total_errors' = 0
                   /\ current_delay' = args_delay
                   /\ consecutive_ok' = 0
                   /\ UNCHANGED fetch_exit
    /\ UNCHANGED <<i, pace_slept, fetch_start, fetch_end, fetchArgs, batchVars, rpcVars,
                   cache, partial, foreign>>
    /\ UNCHANGED notFetch

\* main, lines 479-483, and fetch_and_write_batch, lines 301-321: the next
\* batch is cut and its request list is handed to rpc_call
BatchBegin ==
    /\ fetch_pc = "batch"
    /\ i < Len(missing)
    /\ block_nums' = Batch
    /\ issued' = Append(issued, Batch)
    /\ RpcEnter("batch", batch_requests(Batch))
    /\ UNCHANGED <<written, errors>>
    /\ UNCHANGED <<fetch_start, fetch_end, fetchArgs, fetchLoop, cache, partial, foreign, fetch_exit>>
    /\ UNCHANGED notFetch

\* a loop that paces after every batch, the last one too
LoopTail_pacing_all(delay) ==
    /\ pace_slept' = Append(pace_slept, delay)
    /\ IF i + Len(Batch) < Len(missing)
       THEN fetch_pc' = "batch" /\ UNCHANGED fetch_exit
       ELSE fetch_pc' = "done" /\ fetch_exit' = 0
    /\ i' = i + batch_size

\* main, lines 499-529: the rest of the loop body (the pacing sleep unless
\* this was the last batch), the step of the loop and, past its end, the
\* final report
LoopTail(delay) ==
    /\ IF i + Len(Batch) < Len(missing)
       THEN /\ pace_slept' = Append(pace_slept, delay)
            /\ fetch_pc' = "batch"
            /\ UNCHANGED fetch_exit
       ELSE /\ UNCHANGED pace_slept
            /\ fetch_pc' = "done"
            /\ fetch_exit' = 0
    /\ i' = i + batch_size

\* fetch_and_write_batch, lines 323-357, and main, lines 485-491: the batch's
\* array is processed height by height, then counted as a success
BatchProcess ==
    /\ fetch_pc = "returned"
    /\ rpc_caller = "batch"
    /\ HasId(results)
    /\ LET ret == fetch_and_write_batch(block_nums, results, write_fails)
           whole == {e[1] : e \in ret.entries}
       IN  /\ cache' = cache \cup whole \cup ret.torn
           /\ partial' = (partial \ whole) \cup ret.torn
           /\ UNCHANGED foreign
           /\ written' = ret.written
           /\ errors' = ret.errors
           /\ total_written' = total_written + ret.written
           /\ total_errors' = total_errors + ret.errors
    /\ consecutive_ok' = consecutive_ok + 1
    /\ current_delay' = relaxed_delay(consecutive_ok + 1, current_delay, args_delay)
    /\ LoopTail(current_delay')
    /\ UNCHANGED <<missing, block_nums, issued, fetch_start, fetch_end, fetchArgs, rpcVars>>
    /\ UNCHANGED notFetch

\* a handler that leaves the heights of a failed batch uncounted
BatchFailed_uncounted ==
    /\ fetch_pc = "raised"
    /\ rpc_caller = "batch"
    /\ rpc_exc = "RequestException"
    /\ current_delay' = backoff_delay(current_delay)
    /\ consecutive_ok' = 0
    /\ LoopTail(current_delay')
    /\ UNCHANGED <<missing, total_written, total_errors, fetch_start, fetch_end, fetchArgs,
                   batchVars, rpcVars, cache, partial, foreign>>
    /\ UNCHANGED notFetch

\* main, lines 492-497: rpc_call raised a RequestException
BatchFailed ==
    /\ fetch_pc = "raised"
    /\ rpc_caller = "batch"
    /\ rpc_exc = "RequestException"
    /\ current_delay' = backoff_delay(current_delay)
    /\ consecutive_ok' = 0
    /\ total_errors' = total_errors + Len(Batch)
    /\ LoopTail(current_delay')
    /\ UNCHANGED <<missing, total_written, fetch_start, fetch_end, fetchArgs, batchVars,
                   rpcVars, cache, partial, foreign>>
    /\ UNCHANGED notFetch

FetchIdle ==
    /\ fetch_pc = "idle"
    /\ fetch_start = <<>>
    /\ fetch_end = <<>>
    /\ batch_size = 5
    /\ args_delay = 0
    /\ dry_run = FALSE
    /\ scan_gaps = FALSE
    /\ node_tip = 0
    /\ node_answers = <<>>
    /\ write_fails = {}
    /\ missing = <<>>
    /\ i = 0
    /\ total_written = 0
    /\ total_errors = 0
    /\ current_delay = 0
    /\ consecutive_ok = 0
    /\ pace_slept = <<>>
    /\ block_nums = <<>>
    /\ issued = <<>>
    /\ rpc_batch = <<>>
    /\ results = <<>>
    /\ written = -1
    /\ errors = -1
    /\ rpc_caller = "none"
    /\ attempt = 0
    /\ rpc_requests = 0
    /\ rpc_slept = <<>>
    /\ rpc_last = "none"
    /\ rpc_exc = "none"
    /\ fetch_exit = -1
    /\ invocation = 0
    /\ left_behind = {}

\* the runs that are followed by a second invocation: two batches of two
\* heights, against a node that may lack blocks and a connection that may fail
ResumeRuns ==
    { [start |-> <<1>>, end |-> <<4>>, batch_size |-> 2, delay |-> 5,
       dry_run |-> FALSE, scan_gaps |-> FALSE, probe |-> {}, tip |-> 4,
       heights |-> {1, 2}, answers |-> Lacking, failing |-> {},
       foreign |-> {}] }

ResumeInit == FetchInitFrom(ResumeRuns)

\* The run has ended and the script is invoked again with no --start, no
\* --end and no --scan-gaps: main starts over, on the archive as it is.
FetchReinvoke ==
    /\ fetch_pc \in {"done", "aborted"}
    /\ invocation = 1
    /\ invocation' = 2
    /\ left_behind' =
          LET Whole(x) == block_path(x) \in cache \ partial
          IN  {x \in SeqRange(missing) :
                  ~Whole(x) /\ \E y \in SeqRange(missing) : y > x /\ Whole(y)}
    /\ fetch_pc' = "start"
    /\ fetch_start' = <<>>
    /\ fetch_end' = <<>>
    /\ scan_gaps' = FALSE
    /\ dry_run' = FALSE
    /\ missing' = <<>>
    /\ i' = 0
    /\ total_written' = 0
    /\ total_errors' = 0
    /\ current_delay' = 0
    /\ consecutive_ok' = 0
    /\ pace_slept' = <<>>
    /\ block_nums' = <<>>
    /\ issued' = <<>>
    /\ rpc_batch' = <<>>
    /\ results' = <<>>
    /\ written' = -1
    /\ errors' = -1
    /\ rpc_caller' = "none"
    /\ attempt' = 0
    /\ rpc_requests' = 0
    /\ rpc_slept' = <<>>
    /\ rpc_last' = "none"
    /\ rpc_exc' = "none"
    /\ fetch_exit' = -1
    /\ UNCHANGED <<batch_size, args_delay, node_tip, node_answers, write_fails>>
    /\ UNCHANGED <<cache, partial, foreign>>
    /\ UNCHANGED notFetch

FetchNext ==
    \/ FetchStart
    \/ \E resp \in Responses : RpcAttempt(resp)
    \/ TipReturn
    \/ FetchAbort
    \/ FetchMissing
    \/ BatchBegin
    \/ BatchProcess
    \/ BatchFailed

-----------------------------------------------------------------------------
(* Transcoder: fetch_blocks_rpc.rpc_to_nanoreth on its own *)

\* the most transactions a block of the model holds
MaxTxs == 2

\* the heights blocks are numbered with: around every threshold of the table
\* and far above the last
CodecHeights ==
    ({PRECOMPILE_TRANSITIONS[k][1] + d : k \in 1..Len(PRECOMPILE_TRANSITIONS), d \in -1..1}
        \cap Nat)
    \cup {2 * PRECOMPILE_TRANSITIONS[1][1]}

\* the "type" members transactions come with: none, the three the encoder
\* names, a blob transaction (0x3), a set-code transaction (0x4)
TxTypes == {NoType, "0x0", "0x1", "0x2", "0x3", "0x4"}

\* transactions as a node returns them (every member there), and ones that
\* lack the members of the other variants
CodecTxs == {Tx(t, has) : t \in TxTypes,
                          has \in {TxMembers, {"gasPrice"}, {"chainId", "maxFeePerGas"}}}

RECURSIVE SeqsUpTo(_, _)
SeqsUpTo(S, n) ==
    IF n = 0 THEN {<<>>}
    ELSE LET shorter == SeqsUpTo(S, n - 1)
         IN  shorter \cup {Append(q, x) : q \in {r \in shorter : Len(r) = n - 1}, x \in S}

CodecInit ==
    /\ codec_pc = "start"
    /\ codec_block \in {JBlock(HexOf(n), HexOf(30000000), txs) :
                           n \in CodecHeights, txs \in SeqsUpTo(CodecTxs, MaxTxs)}
    /\ codec_receipts = <<>>
    /\ codec_out = Raised

\* rpc_to_nanoreth(block_json, receipts_json)
CodecConvert ==
    /\ codec_pc = "start"
    /\ codec_out' = rpc_to_nanoreth(codec_block, codec_receipts)
    /\ codec_pc' = "done"
    /\ UNCHANGED <<codec_block, codec_receipts>>
    /\ UNCHANGED notCodec

CodecIdle ==
    /\ codec_pc = "idle"
    /\ codec_block = JNull
    /\ codec_receipts = <<>>
    /\ codec_out = Raised

CodecNext == CodecConvert

-----------------------------------------------------------------------------
(* Specifications *)

\* the path functions applied to one height
InitPath ==
    /\ PathInit /\ ScanIdle /\ BoundaryIdle /\ FetchIdle /\ CodecIdle
    /\ cache = {} /\ partial = {} /\ foreign = {}
NextPath == PathCompute
SpecPath == InitPath /\ [][NextPath]_vars

\* one run of check_block_completeness.py
InitScan == ScanInit /\ PathIdle /\ BoundaryIdle /\ FetchIdle /\ CodecIdle
SpecScan == InitScan /\ [][ScanNext]_vars

\* one run of download_boundary_blocks.py
InitBoundary == BoundaryInit /\ PathIdle /\ ScanIdle /\ FetchIdle /\ CodecIdle
SpecBoundary == InitBoundary /\ [][BoundaryNext]_vars

\* one run of either script that downloads from the bulk store
InitBulk ==
    \/ ScanInit /\ PathIdle /\ BoundaryIdle /\ FetchIdle /\ CodecIdle
    \/ BoundaryInit /\ PathIdle /\ ScanIdle /\ FetchIdle /\ CodecIdle
NextBulk ==
    \/ ScanNext
    \/ BoundaryNext
SpecBulk == InitBulk /\ [][NextBulk]_vars

\* one run of fetch_blocks_rpc.py
InitFetch == FetchInit /\ PathIdle /\ ScanIdle /\ BoundaryIdle /\ CodecIdle
SpecFetch == InitFetch /\ [][FetchNext]_vars

\* one run of either script that has a --dry-run
InitFill ==
    \/ BoundaryInit /\ PathIdle /\ ScanIdle /\ FetchIdle /\ CodecIdle
    \/ FetchInit /\ PathIdle /\ ScanIdle /\ BoundaryIdle /\ CodecIdle
NextFill ==
    \/ BoundaryNext
    \/ FetchNext
SpecFill == InitFill /\ [][NextFill]_vars

\* one run of fetch_blocks_rpc.py and a second invocation after it
InitResume == ResumeInit /\ PathIdle /\ ScanIdle /\ BoundaryIdle /\ CodecIdle
NextResume ==
    \/ FetchNext
    \/ FetchReinvoke
SpecResume == InitResume /\ [][NextResume]_vars

\* rpc_to_nanoreth applied to one block
InitCodec ==
    /\ CodecInit /\ PathIdle /\ ScanIdle /\ BoundaryIdle /\ FetchIdle
    /\ cache = {} /\ partial = {} /\ foreign = {}
SpecCodec == InitCodec /\ [][CodecNext]_vars

-----------------------------------------------------------------------------
(* Properties of the path scheme (SpecPath) *)

\* no gap: every member but the largest is followed by its successor
IsInterval(S) == \A a \in S : (a + 1 \in S) \/ (\A b \in S : b <= a)

IsAscending(s) == \A k \in 1..(Len(s) - 1) : s[k] < s[k + 1]

\* C1: for every height h >= 1 expected_dir(h) is the pair of the largest
\* multiple of 1,000,000 and the largest multiple of 1,000 that are <= h - 1
\* (that is floor((h-1)/1e6)*1e6 and floor((h-1)/1e3)*1e3), expected_dir(0) is
\* (0, 0), and height 45,000,000 lies in thousands bucket 44,999,000 of
\* millions bucket 44,000,000.
C1_ExpectedDir ==
    computed =>
        /\ h = 0 => scan_dir = <<0, 0>>
        /\ h >= 1 =>
              /\ scan_dir[1] % MILLION = 0
              /\ scan_dir[1] <= h - 1
              /\ h - 1 < scan_dir[1] + MILLION
              /\ scan_dir[2] % THOUSAND = 0
              /\ scan_dir[2] <= h - 1
              /\ h - 1 < scan_dir[2] + THOUSAND
        /\ h = 45000000 => scan_dir = <<44000000, 44999000>>

C1_Witness == computed /\ h = 45000000 /\ scan_dir[2] = 44999000

\* C2: for every height h >= 0 the scanner's cache_path, the boundary
\* downloader's s3_key and cache_path and the live fetcher's block_path are
\* the same relative path.
C2_SameSchemeEverywhere ==
    computed =>
        /\ scan_path = bnd_key
        /\ bnd_key = bnd_path
        /\ bnd_path = rpc_path

\* C3 as stated: the heights of one shard form a contiguous interval of at
\* most 1000 members, height 0 included.
C3_ShardAtMostThousand ==
    computed => IsInterval(shard) /\ Cardinality(shard) <= THOUSAND

\* C3 as amended: the heights of shard (M, T) form a contiguous interval,
\* T+1..T+1000 (1000 members), except that shard (0, 0) also holds height 0
\* and so has the 1001 members 0..1000.
C3_ShardInterval ==
    computed =>
        /\ IsInterval(shard)
        /\ shard \ {0} = (scan_dir[2] + 1)..(scan_dir[2] + THOUSAND)
        /\ 0 \in shard <=> scan_dir = <<0, 0>>
        /\ Cardinality(shard) = IF scan_dir = <<0, 0>> THEN THOUSAND + 1 ELSE THOUSAND

C3_Witness ==
    computed /\ scan_dir = <<0, 0>> /\ h = 1000 /\ 0 \in shard /\ Cardinality(shard) = THOUSAND + 1

-----------------------------------------------------------------------------
(* Properties of the scanner (SpecScan) *)

\* the scan loops are over and the report has not begun
ScanLoopsDone == scan_pc = "outer" /\ m_iter > millions_end

\* the body of the inner loop has run for (millions_base, thousands_base)
ChunkVisited ==
    /\ scan_pc \in {"inner", "outer"}
    /\ millions_base >= 0
    /\ thousands_base >= t_start(millions_base)

\* C4: for start >= 1 and end >= start the scan reports exactly the gaps of
\* [start, end]: the missing heights are the heights of the range without an
\* entry, and total_expected = end - start + 1.
C4_GapReportOfRange ==
    (ScanLoopsDone /\ Start >= 1 /\ args_end >= Start) =>
        /\ SeqRange(all_missing) = {x \in Start..args_end : cache_path(x) \notin cache}
        /\ total_expected = args_end - Start + 1

\* C5: blocks_in_chunk(T, M, latest) is the ascending list of exactly the
\* heights h with 1 <= h <= latest and expected_dir(h) = (M, T); the scan of
\* [1, 2500] expects 1..1000 in (0,0), 1001..2000 in (0,1000) and 2001..2500
\* (500 heights) in (0,2000), 2500 heights in all.
C5_BlocksInChunk ==
    /\ ChunkVisited =>
          /\ IsAscending(expected)
          /\ SeqRange(expected) =
                {x \in (thousands_base - THOUSAND)..(thousands_base + 2 * THOUSAND) :
                    /\ 1 <= x
                    /\ x <= latest
                    /\ expected_dir(x) = <<millions_base, thousands_base>>}
    /\ (ChunkVisited /\ Start = 1 /\ latest = 2500) =>
          /\ thousands_base = 0 => expected = [k \in 1..1000 |-> k]
          /\ thousands_base = 1000 => expected = [k \in 1..1000 |-> 1000 + k]
          /\ thousands_base = 2000 => expected = [k \in 1..500 |-> 2000 + k]
    /\ (ScanLoopsDone /\ Start = 1 /\ latest = 2500) => total_expected = 2500

C5_Witness ==
    /\ scan_pc = "inner"
    /\ Start = 1
    /\ latest = 2500
    /\ thousands_base = 2000
    /\ Len(expected) = 500

-----------------------------------------------------------------------------
(* Properties of the runs' exit status (SpecScan, SpecFetch) *)

\* C6: a run exits non-zero if and only if some height of its target range
\* has no cache entry when the run ends, for the scanner (with or without
\* --fix) and for the live fetcher.  It is stated for the scans whose start is
\* the first height of its bucket (the scanned heights are then those of the
\* target range) and for the fetcher runs without --dry-run.
C6_ExitReflectsMissing ==
    /\ (scan_pc = "exit" /\ (Start - 1) % THOUSAND = 0) =>
          (exit_code # 0 <=> \E x \in Start..latest : cache_path(x) \notin cache)
    /\ (fetch_pc \in {"done", "aborted"} /\ fetch_end # <<>> /\ ~dry_run) =>
          (fetch_exit # 0 <=>
              \E x \in FetchStartArg..FetchEndArg : block_path(x) \notin cache)

-----------------------------------------------------------------------------
(* Properties of the live fetcher (SpecFetch) *)

\* rpc_call is running or has just handed its outcome to its caller
InRpcCall == fetch_pc \in {"rpc", "returned", "raised"}

\* the batch loop of main is running
InBatchLoop ==
    \/ fetch_pc = "batch"
    \/ InRpcCall /\ rpc_caller = "batch"

\* C7: when an exchange of a batch's rpc_call yields a single error object,
\* rpc_call has sent exactly one request, has not slept, and has raised to
\* its caller.
C7_ErrorObjectNotRetried ==
    (InRpcCall /\ rpc_caller = "batch" /\ rpc_last = "error_obj") =>
        /\ rpc_requests = 1
        /\ rpc_slept = <<>>
        /\ fetch_pc = "raised"

\* C8: rpc_call makes at most MAX_RETRIES = 5 requests; after failed attempt
\* k = 0..3 it sleeps RETRY_DELAY * 2^k seconds (2, 4, 8, 16); it returns at
\* the first exchange that yields a body, without a sleep after it; it raises
\* after the 5th failure in a row, without a 5th sleep.
C8_RetryBackoff ==
    InRpcCall =>
        /\ rpc_requests <= MAX_RETRIES
        /\ Len(rpc_slept) <= 4
        /\ rpc_slept = SubSeq(<<2, 4, 8, 16>>, 1, Len(rpc_slept))
        /\ fetch_pc = "rpc" =>
              /\ rpc_last \in Failing \cup {"none"}
              /\ Len(rpc_slept) = rpc_requests
              /\ attempt = rpc_requests
        /\ fetch_pc = "returned" =>
              /\ rpc_last \in Returning
              /\ Len(rpc_slept) = rpc_requests - 1
        /\ fetch_pc = "raised" =>
              /\ rpc_last \in Failing
              /\ rpc_requests = MAX_RETRIES
              /\ rpc_slept = <<2, 4, 8, 16>>

C8_Witness ==
    /\ fetch_pc = "raised"
    /\ rpc_last = "transport"
    /\ rpc_requests = 5
    /\ rpc_slept = <<2, 4, 8, 16>>

\* the step that handles a batch rpc_call returned an array for
SuccessStep ==
    /\ fetch_pc = "returned"
    /\ rpc_caller = "batch"
    /\ rpc_last = "list"
    /\ fetch_pc' \in {"batch", "done"}

\* the step that handles a batch whose rpc_call raised a RequestException
FailureStep ==
    /\ fetch_pc = "raised"
    /\ rpc_caller = "batch"
    /\ rpc_exc = "RequestException"
    /\ fetch_pc' \in {"batch", "done"}

\* C9: a failed batch sets delay := min(2 * delay, 120) and the streak := 0;
\* a successful batch increments the streak, and if the streak is then >= 5
\* and delay > baseline sets delay := max(baseline, 0.8 * delay); with a
\* streak below 5, or a delay at the baseline, the delay is unchanged; no
\* other step of the loop changes either.
C9_AdaptivePacing ==
    [][ /\ FailureStep =>
              /\ current_delay' = Min2(2 * current_delay, Seconds(120))
              /\ consecutive_ok' = 0
        /\ SuccessStep =>
              /\ consecutive_ok' = consecutive_ok + 1
              /\ (consecutive_ok' >= 5 /\ current_delay > args_delay) =>
                    current_delay' = Max2(args_delay, (8 * current_delay) \div 10)
              /\ (consecutive_ok' < 5 \/ current_delay <= args_delay) =>
                    current_delay' = current_delay
        /\ (InBatchLoop /\ ~SuccessStep /\ ~FailureStep) =>
              UNCHANGED <<current_delay, consecutive_ok>>
      ]_vars

\* two relaxations in a row: 10 s -> 8 s -> 6.4 s
C9_Witness ==
    /\ fetch_pc \in {"batch", "done"}
    /\ args_delay = Seconds(5)
    /\ consecutive_ok = 6
    /\ 10 * current_delay = Seconds(64)

\* C10: at every point of the batch loop, and after it, the inter-batch delay
\* is at least the configured baseline.
C10_DelayNeverBelowBaseline ==
    (InBatchLoop \/ (fetch_pc = "done" /\ ~dry_run /\ missing # <<>>)) =>
        current_delay >= args_delay


-----------------------------------------------------------------------------
(* Properties of the batch loop's pacing (SpecFetch) *)

\* the batches the loop of main cuts from the missing list
NumBatches == (Len(missing) + batch_size - 1) \div batch_size

\* a step that enters fetch_and_write_batch for the next batch
BatchEntry == fetch_pc = "batch" /\ fetch_pc' = "rpc"

\* a step that ends an iteration of the batch loop
BatchExit == fetch_pc \in {"returned", "raised"} /\ fetch_pc' \in {"batch", "done"}

\* C11: the pacing delay is applied only between batches.  When the k-th
\* batch is entered k - 1 pacing sleeps have been made (none before the
\* first); the iteration of a batch that is not the last ends with one sleep,
\* of the delay as that batch's outcome has just set it; the iteration of the
\* last batch ends without a sleep, B - 1 sleeps having been made for the B
\* batches; no other step sleeps.
C11_PacingBetweenBatches ==
    [][ /\ BatchEntry => Len(pace_slept) = i \div batch_size
        /\ (BatchExit /\ fetch_pc' = "batch") =>
               pace_slept' = Append(pace_slept, current_delay')
        /\ (BatchExit /\ fetch_pc' = "done") =>
               /\ pace_slept' = pace_slept
               /\ Len(pace_slept') = NumBatches - 1
        /\ ~BatchExit => pace_slept' = pace_slept ]_vars

\* a run of PaceBatches batches has ended; its first batch failed, and the
\* sleep that followed it took the doubled delay
C11_Witness ==
    /\ fetch_pc = "done"
    /\ NumBatches = PaceBatches
    /\ Len(pace_slept) = PaceBatches - 1
    /\ args_delay = Seconds(5)
    /\ pace_slept[1] = Seconds(10)


-----------------------------------------------------------------------------
(* Properties of fetch_and_write_batch (SpecFetch) *)

\* the array s taken in the order perm
Permuted(s, perm) == [k \in 1..Len(s) |-> s[perm[k]]]

\* the (block, receipts) pair the loop resolves for each height, the idx-th
\* height's (counted from 0) at idx + 1
Resolved(nums, res) ==
    LET d == by_id(res)
    IN  [k \in 1..Len(nums) |-> <<ResultOf(d, (k - 1) * 2), ResultOf(d, (k - 1) * 2 + 1)>>]

\* fetch_and_write_batch has a request list
BatchIssued == rpc_caller = "batch" /\ fetch_pc \in {"rpc", "returned", "raised"}

\* rpc_call has returned fetch_and_write_batch an array that it can index
BatchAnswered == rpc_caller = "batch" /\ fetch_pc = "returned" /\ HasId(results)

\* the loop of main has taken the return of fetch_and_write_batch
BatchReturned ==
    rpc_caller = "batch" /\ rpc_last \in Returning /\ fetch_pc \in {"batch", "done"}

\* C12: a batch of N heights produces exactly 2N requests whose ids are
\* exactly 0..2N-1, id 2i being the block-by-number query and id 2i+1 the
\* block-receipts query of the i-th height.  Responses are matched by id: in
\* whatever order the array's elements are taken, the pair resolved for each
\* height, the counts returned and the entries written are those of the
\* order in which they arrived, which are the counts the run has taken and
\* entries the cache holds.  (Every order is tried for the batches of up to
\* DemuxHeights heights.)
C12_DemuxById ==
    /\ BatchIssued =>
          /\ Len(rpc_batch) = 2 * Len(block_nums)
          /\ {rpc_batch[k].id : k \in 1..Len(rpc_batch)} = 0..(2 * Len(block_nums) - 1)
          /\ \A idx \in 0..(Len(block_nums) - 1) :
                /\ \E k \in 1..Len(rpc_batch) :
                      rpc_batch[k] = [method |-> "eth_getBlockByNumber",
                                      height |-> block_nums[idx + 1], id |-> 2 * idx]
                /\ \E k \in 1..Len(rpc_batch) :
                      rpc_batch[k] = [method |-> "eth_getBlockReceipts",
                                      height |-> block_nums[idx + 1], id |-> 2 * idx + 1]
    /\ (BatchAnswered /\ Len(block_nums) <= DemuxHeights) =>
          LET pairs == Resolved(block_nums, results)
              ret == fetch_and_write_batch(block_nums, results, write_fails)
          IN  \A perm \in Permutations(1..Len(results)) :
                 LET other == Permuted(results, perm)
                 IN  /\ Resolved(block_nums, other) = pairs
                     /\ fetch_and_write_batch(block_nums, other, write_fails) = ret
    /\ BatchReturned =>
          LET ret == fetch_and_write_batch(block_nums, results, write_fails)
          IN  /\ written = ret.written
              /\ errors = ret.errors
              /\ {e[1] : e \in ret.entries} \subseteq cache \ partial

\* a batch of DemuxHeights heights whose full array arrived in reverse order
\* has been written
C12_Witness ==
    /\ BatchReturned
    /\ Len(block_nums) = DemuxHeights
    /\ Len(results) = 2 * DemuxHeights
    /\ results = Reverse(InRequestOrder(rpc_batch))
    /\ results # InRequestOrder(rpc_batch)
    /\ written = DemuxHeights


\* how often height x has been handed to fetch_and_write_batch in this run
TimesIssued(x) ==
    Cardinality({<<b, k>> \in (1..Len(issued)) \X (1..Len(missing)) :
                    k <= Len(issued[b]) /\ issued[b][k] = x})

\* the node's answers for which a height has no block data, and those for
\* which it has receipts
NoBlock == {"absent", "error", "null"}
NoReceipts == {"absent", "error", "null"}

\* the heights of the last batch that cannot be written: no block data, a
\* block or a receipt that cannot be transcoded, a file that cannot be written
Unwritable ==
    {k \in 1..Len(block_nums) :
        LET a == AnswerTo(block_nums[k])
        IN  \/ a.block \in NoBlock \cup {"wide", "malformed"}
            \/ a.receipts = "malformed"
            \/ block_nums[k] \in write_fails}

\* C13: within a batch, a height whose block response is missing, is an error
\* or has an empty result is counted as exactly one error, is not written and
\* is not handed to a second batch in this run; a height whose block is
\* present but whose receipts response is absent or has no result is no
\* error: it is transcoded with zero receipts and written.
C13_PerHeightOutcome ==
    /\ BatchReturned =>
          LET ret == fetch_and_write_batch(block_nums, results, write_fails)
          IN  /\ errors = Cardinality(Unwritable)
              /\ written = Len(block_nums) - Cardinality(Unwritable)
              /\ \A k \in 1..Len(block_nums) :
                    LET bn == block_nums[k]
                        a == AnswerTo(bn)
                    IN  /\ a.block \in NoBlock =>
                              /\ k \in Unwritable
                              /\ block_path(bn) \notin cache
                        /\ (a.block = "good" /\ a.receipts \in NoReceipts
                              /\ bn \notin write_fails) =>
                              /\ k \notin Unwritable
                              /\ block_path(bn) \in cache \ partial
                              /\ <<block_path(bn),
                                   [gasLimit |-> [j \in 1..GasLimitBytes |-> 255],
                                    transactions |-> <<"Eip1559">>,
                                    receipts |-> <<>>,
                                    highest_precompile_address |->
                                        get_highest_precompile(bn)]>> \in ret.entries
    /\ \A k \in 1..Len(missing) : TimesIssued(missing[k]) <= 1

\* a batch of two heights has returned: the first has no block response and
\* is counted, the second has a block and no receipts response and is written
C13_Witness ==
    /\ BatchReturned
    /\ Len(block_nums) = 2
    /\ AnswerTo(block_nums[1]) = Answer("absent", "one")
    /\ AnswerTo(block_nums[2]) = Answer("good", "absent")
    /\ written = 1
    /\ errors = 1
    /\ block_path(block_nums[2]) \in cache
    /\ fetch_pc = "done"


\* the heights of the last batch whose block or receipts cannot be
\* transcoded: a gasLimit of more than GasLimitBytes bytes, or hex that is
\* no number
Undecodable ==
    {k \in 1..Len(block_nums) :
        LET a == AnswerTo(block_nums[k])
        IN  \/ a.block \in {"wide", "malformed"}
            \/ a.block = "good" /\ a.receipts = "malformed"}

\* the last batch without the heights that cannot be transcoded
Siblings == SelectSeq(block_nums, LAMBDA bn :
                \A k \in Undecodable : block_nums[k] # bn)

\* C14: a decode error confined to one height (malformed hex, or an integer
\* that does not fit its byte width, such as a gasLimit of 2^64) is counted
\* as exactly one error for that height and creates no cache entry for it,
\* and the other heights of the batch are counted and written as they are
\* in a batch that does not hold the bad height.
C14_DecodeErrorConfined ==
    BatchReturned =>
       LET ret == fetch_and_write_batch(block_nums, results, write_fails)
           alone == fetch_and_write_batch(Siblings,
                                          InRequestOrder(batch_requests(Siblings)),
                                          write_fails)
       IN  /\ \A k \in Undecodable :
                 /\ block_path(block_nums[k]) \notin cache
                 /\ \A e \in ret.entries : e[1] # block_path(block_nums[k])
           /\ errors = alone.errors + Cardinality(Undecodable)
           /\ written = alone.written
           /\ ret.entries = alone.entries
           /\ ret.torn = alone.torn
           /\ \A bn \in SeqRange(Siblings) :
                 /\ block_path(bn) \in cache \ partial <=>
                       \E e \in alone.entries : e[1] = block_path(bn)
                 /\ block_path(bn) \in partial <=> block_path(bn) \in alone.torn

\* a batch of two heights has returned: the first block's gasLimit is 2^64,
\* the second height is written
C14_Witness ==
    /\ BatchReturned
    /\ fetch_pc = "done"
    /\ Len(block_nums) = 2
    /\ AnswerTo(block_nums[1]) = Answer("wide", "one")
    /\ AnswerTo(block_nums[2]) = Answer("good", "one")
    /\ written = 1
    /\ errors = 1
    /\ block_path(block_nums[1]) \notin cache
    /\ block_path(block_nums[2]) \in cache


-----------------------------------------------------------------------------
(* Properties of the run as a whole (SpecFetch, SpecBulk) *)

\* C15: no failure of a height or of a batch aborts the live-fetch run: once
\* the batch loop has been entered, whatever a batch comes to (per-height
\* errors, a transport failure that exhausted its retries, an error object, a
\* malformed response such as an array element without an id), the run does
\* not end before its final report, and ends there with every batch issued.
C15_RunSurvivesBatchFailures ==
    /\ ~(fetch_pc = "aborted" /\ rpc_caller = "batch")
    /\ (fetch_pc = "done" /\ ~dry_run) => Len(issued) = NumBatches

\* a collection without repeated members
NoRepeats(s) == \A j, k \in 1..Len(s) : s[j] = s[k] => j = k

\* the pool of check_block_completeness.download_blocks: what holds of it in
\* every state, and what its steps may change
ScanPoolSound ==
    /\ NoRepeats(dl_started)
    /\ SeqRange(dl_started) = SeqRange(dl_missing) \ dl_todo
    /\ Len(dl_started) = downloaded + failed + Cardinality(dl_results)
    /\ scan_pc \in {"return", "exit"} =>
          /\ dl_todo = {} /\ dl_results = {}
          /\ SeqRange(dl_started) = SeqRange(dl_missing)
          /\ downloaded = Cardinality({bn \in SeqRange(dl_missing) :
                                          cache_path(bn) \in cache \ partial})
          /\ failed = Cardinality({bn \in SeqRange(dl_missing) :
                                      cache_path(bn) \notin cache \ partial})
          /\ downloaded + failed = Len(dl_missing)

ScanPoolStep ==
    /\ (downloaded' # downloaded \/ failed' # failed) =>
          /\ \E r \in dl_results : dl_results' = dl_results \ {r}
          /\ downloaded' + failed' = downloaded + failed + 1
          /\ UNCHANGED <<dl_started, dl_todo, cache, partial, foreign>>
    /\ dl_started' # dl_started =>
          /\ \E bn \in dl_todo : dl_started' = Append(dl_started, bn)
          /\ UNCHANGED <<downloaded, failed>>

\* the pool of download_boundary_blocks.main
BoundaryPoolSound ==
    /\ NoRepeats(bnd_started)
    /\ (bnd_pc = "download" \/ (bnd_pc = "exit" /\ ~bnd_dry_run)) =>
          SeqRange(bnd_started) = SeqRange(bnd_missing) \ bnd_todo
    /\ Len(bnd_started) = bnd_downloaded + bnd_failed + Cardinality(bnd_results)
    /\ (bnd_pc = "exit" /\ ~bnd_dry_run) =>
          /\ bnd_todo = {} /\ bnd_results = {}
          /\ SeqRange(bnd_started) = SeqRange(bnd_missing)
          /\ bnd_downloaded = Cardinality({x \in SeqRange(bnd_missing) :
                                  boundary_cache_path(x) \in cache \ partial})
          /\ bnd_failed = Cardinality({x \in SeqRange(bnd_missing) :
                                  boundary_cache_path(x) \notin cache \ partial})
          /\ bnd_downloaded + bnd_failed = Len(bnd_missing)

BoundaryPoolStep ==
    /\ (bnd_downloaded' # bnd_downloaded \/ bnd_failed' # bnd_failed) =>
          /\ \E r \in bnd_results : bnd_results' = bnd_results \ {r}
          /\ bnd_downloaded' + bnd_failed' = bnd_downloaded + bnd_failed + 1
          /\ UNCHANGED <<bnd_started, bnd_todo, cache, partial, foreign>>
    /\ bnd_started' # bnd_started =>
          /\ \E x \in bnd_todo : bnd_started' = Append(bnd_started, x)
          /\ UNCHANGED <<bnd_downloaded, bnd_failed>>

\* C16: in the bulk-store download of the scanner and of the boundary
\* downloader, for every list of missing heights, every pattern of failures
\* and every interleaving of the workers and the coordinator: every listed
\* height is attempted exactly once, whether or not other tasks failed; the
\* counters are changed only by the coordinator's step, one result at a time;
\* and at the return downloaded is the number of tasks that succeeded,
\* failed the number that failed, and their sum the number of listed heights.
C16_PoolAccounting ==
    [][ /\ ScanPoolSound'
        /\ ScanPoolStep
        /\ BoundaryPoolSound'
        /\ BoundaryPoolStep ]_vars

\* the boundary downloader has ended a run of three tasks, of which the
\* first to run failed and the other two succeeded
C16_Witness ==
    /\ bnd_pc = "exit"
    /\ Len(bnd_missing) = 3
    /\ bnd_downloaded = 2
    /\ bnd_failed = 1
    /\ boundary_cache_path(bnd_started[1]) \notin cache


-----------------------------------------------------------------------------
(* Properties of the archive (SpecBulk, SpecScan, SpecFetch) *)

\* C17: no cache entry is ever left partially written: in every reachable
\* state every entry that exists holds the complete bytes of one record,
\* whichever script wrote it and however its write ended.
C17_NoPartialEntry == partial = {}

\* every height of the scanner's range [start, latest] had an entry when the
\* run began: it has one now, and not from a download of this run
ScanRangeWasComplete ==
    \A x \in Start..latest :
        cache_path(x) \in cache /\ x \notin SeqRange(dl_started)

\* every height of the fetcher's range had an entry when the run began
FetchRangeWasComplete ==
    \A x \in FetchStartArg..FetchEndArg :
        /\ block_path(x) \in cache
        /\ \A b \in 1..Len(issued) : x \notin SeqRange(issued[b])

\* C18: repair is idempotent.  When every height of the target range already
\* has an entry, a scan with --fix reports no missing height and starts no
\* download, and the live fetcher finds nothing missing and issues no batch;
\* no entry is written.
C18_RepairIdempotent ==
    /\ (scan_pc \in {"return", "exit"} /\ args_fix /\ ScanRangeWasComplete) =>
          /\ total_missing = 0
          /\ all_missing = <<>>
          /\ dl_started = <<>>
    /\ (fetch_pc = "done" /\ fetch_start # <<>> /\ fetch_end # <<>>
          /\ FetchRangeWasComplete) =>
          /\ missing = <<>>
          /\ issued = <<>>
          /\ total_written = 0

\* the heights of [start, end] in ascending order
RangeSeq(start, end) == [k \in 1..Max2(0, end - start + 1) |-> start + k - 1]

\* the step of main that determines the missing heights
MissingDetermined == fetch_pc = "missing" /\ fetch_pc' # "missing"

\* C19: the missing heights are determined in one of two modes: without
\* --scan-gaps the list is every height of [start, end], whichever entries
\* exist; with --scan-gaps it is the heights of [start, end] that have no
\* entry.
C19_TwoModes ==
    [][ MissingDetermined =>
          missing' = IF scan_gaps
                     THEN SelectSeq(RangeSeq(FetchStartArg, FetchEndArg),
                                    LAMBDA x : block_path(x) \notin cache)
                     ELSE RangeSeq(FetchStartArg, FetchEndArg) ]_vars

\* the highest height that has an entry, 0 when there is none
HighestStored == SetMax({p[3] : p \in cache})

\* C20: latest-height discovery returns the highest height that has an
\* entry, taking directories and file names in numeric order: the fetcher's
\* default start is one past it, and the scanner's auto-detected latest is it.
C20_LatestIsNumericMax ==
    [][ /\ (fetch_pc = "start" /\ fetch_start = <<>> /\ fetch_pc' # "start") =>
               fetch_start' = <<HighestStored + 1>>
        /\ (scan_pc = "start" /\ args_end = 0 /\ scan_pc' # "start") =>
               latest' = HighestStored ]_vars


-----------------------------------------------------------------------------
(* Properties of the latest-height discovery among foreign entries *)

\* the discovery step of either script
FetchDiscovers == fetch_pc = "start" /\ fetch_start = <<>>
ScanDiscovers == scan_pc = "start" /\ args_end <= 0

\* C21: during latest-height discovery a directory whose name is no number or
\* that may not be listed, and a file whose name is no number, are skipped
\* and never make the discovery fail: the step does not end the run, and its
\* result is the one the same entries give without them.
C21_ForeignEntriesSkipped ==
    [][ /\ FetchDiscovers =>
              /\ fetch_pc' # "aborted"
              /\ fetch_start' = <<find_cache_latest(cache, {}).value + 1>>
        /\ ScanDiscovers =>
              /\ scan_pc' # "aborted"
              /\ latest' = find_latest_local_block(cache, {}).value ]_vars


-----------------------------------------------------------------------------
(* Properties of the transcoding (SpecCodec) *)

\* the k-th oldest entry of the table: its threshold and its address
ThresholdFromOldest(k) == PRECOMPILE_TRANSITIONS[Len(PRECOMPILE_TRANSITIONS) + 1 - k][1]
AddressFromOldest(k) == PRECOMPILE_TRANSITIONS[Len(PRECOMPILE_TRANSITIONS) + 1 - k][2]

\* a block was converted: its number and the address it was given
Converted == codec_pc = "done" /\ ~codec_out.raised
ConvertedNumber == IntOf(codec_block.number)
ConvertedAddress == codec_out.value.highest_precompile_address

\* the address is the one of the first entry, newest first, whose threshold
\* is at most the height
FirstReached ==
    \E k \in 1..Len(PRECOMPILE_TRANSITIONS) :
        /\ PRECOMPILE_TRANSITIONS[k][1] <= ConvertedNumber
        /\ \A j \in 1..(k - 1) : PRECOMPILE_TRANSITIONS[j][1] > ConvertedNumber
        /\ ConvertedAddress = PRECOMPILE_TRANSITIONS[k][2]

\* C22 as stated: the lookup returns the address of the first entry, newest
\* first, whose threshold is at most the height, so that height 0 and height
\* 41,121,886 resolve to the oldest address of the table, height 41,121,887
\* to the third-oldest and every height from 44,868,476 on to the newest.
C22_PrecompileAsStated ==
    Converted =>
        /\ FirstReached
        /\ ConvertedNumber \in {0, ThresholdFromOldest(2) - 1} =>
              ConvertedAddress = AddressFromOldest(1)
        /\ ConvertedNumber = ThresholdFromOldest(2) =>
              ConvertedAddress = AddressFromOldest(3)
        /\ ConvertedNumber >= ThresholdFromOldest(4) =>
              ConvertedAddress = AddressFromOldest(4)

\* C22, amended: the lookup returns the address of the first entry, newest
\* first, whose threshold is at most the height, so that height 0 and height
\* 41,121,886 resolve to the oldest address of the table, height 41,121,887
\* to the second-oldest and every height from 44,868,476 on to the newest.
C22_PrecompileLookup ==
    Converted =>
        /\ FirstReached
        /\ ConvertedNumber \in {0, ThresholdFromOldest(2) - 1} =>
              ConvertedAddress = AddressFromOldest(1)
        /\ ConvertedNumber = ThresholdFromOldest(2) =>
              ConvertedAddress = AddressFromOldest(2)
        /\ ConvertedNumber >= ThresholdFromOldest(4) =>
              ConvertedAddress = AddressFromOldest(4)

\* a block numbered 41,121,887 was converted and given the second-oldest
\* address
C22_Witness ==
    /\ Converted
    /\ ConvertedNumber = ThresholdFromOldest(2)
    /\ ConvertedAddress = AddressFromOldest(2)
    /\ AddressFromOldest(2) # AddressFromOldest(3)


\* the variant the k-th transaction of the converted block was encoded as
DeclaredType(k) == codec_block.transactions[k].type
EncodedAs(k) == codec_out.value.transactions[k]

\* C23: the variant is selected by the declared type as a 3-way choice: a
\* transaction is encoded as Legacy exactly when its type is absent or 0x0,
\* as Eip2930 exactly when it is 0x1, as Eip1559 exactly when it is 0x2; a
\* transaction of any other declared type is not encoded under these tags.
C23_VariantByDeclaredType ==
    Converted =>
        \A k \in 1..Len(codec_block.transactions) :
            /\ EncodedAs(k) = "Legacy" <=> DeclaredType(k) \in {NoType, "0x0"}
            /\ EncodedAs(k) = "Eip2930" <=> DeclaredType(k) = "0x1"
            /\ EncodedAs(k) = "Eip1559" <=> DeclaredType(k) = "0x2"


-----------------------------------------------------------------------------
(* Properties of the boundary downloader (SpecBoundary) *)

\* the multiples of 1000 within [start, end], ascending
BoundaryHeights(start, end) ==
    LET first == ((start + THOUSAND - 1) \div THOUSAND) * THOUSAND
        n == IF end >= first THEN (end - first) \div THOUSAND + 1 ELSE 0
    IN  [k \in 1..n |-> first + (k - 1) * THOUSAND]

\* those of them that have no entry
BoundaryHeightsAbsent(start, end) ==
    LET Absent(x) == boundary_cache_path(x) \notin cache
    IN  SelectSeq(BoundaryHeights(start, end), Absent)

\* C24: the boundary downloader scans only boundary heights: for the default
\* range of either chain and for any explicit --start/--end, the scan tests
\* every multiple of 1000 within [start, end] and nothing else (its missing
\* list is those of them that have no entry), and every height downloaded
\* is a multiple of 1000.
C24_OnlyBoundaryHeights ==
    [][ /\ bnd_pc = "start" =>
              bnd_missing' = BoundaryHeightsAbsent(bnd_start'[1], bnd_end'[1])
        /\ \A k \in 1..Len(bnd_started') : bnd_started'[k] % THOUSAND = 0 ]_vars


-----------------------------------------------------------------------------
(* Properties of resumption (SpecResume) *)

\* the second invocation has determined its missing list
ResumedListed ==
    /\ invocation = 2
    /\ \/ fetch_pc \in {"batch", "done"}
       \/ fetch_pc \in {"rpc", "returned", "raised"} /\ rpc_caller = "batch"

\* C25: resumption by re-invocation heals what a run left behind: if a run
\* ended with a height of its range unwritten while a greater height was
\* written, then the fetcher invoked again with the default range and no
\* --scan-gaps has that height in its missing list and, once it is done, has
\* issued it in a batch.
C25_ResumptionHeals ==
    /\ ResumedListed => left_behind \subseteq SeqRange(missing)
    /\ invocation = 2 /\ fetch_pc = "done" =>
          \A x \in left_behind : \E b \in 1..Len(issued) : x \in SeqRange(issued[b])


-----------------------------------------------------------------------------
(* Properties of the live fetcher's accounting (SpecFetch) *)

\* fetch_and_write_batch returns to the batch loop
BatchReturns ==
    fetch_pc = "returned" /\ rpc_caller = "batch" /\ fetch_pc' \in {"batch", "done"}

\* the heights of the missing list the loop has been through
Processed == Min2(i, Len(missing))

\* the loop has ended and the final report is logged
FinalReport == fetch_pc = "done" /\ ~dry_run /\ missing # <<>>

\* between two iterations the totals add up to the heights processed
TotalsAddUp ==
    /\ fetch_pc \in {"batch", "done"} /\ ~dry_run =>
          total_written + total_errors = Processed
    /\ FinalReport => total_written + total_errors = Len(missing)

\* C26: every call of fetch_and_write_batch that returns satisfies written +
\* errors = the number of heights of the batch; after each iteration of the
\* batch loop total_written + total_errors is the number of missing heights
\* processed so far, and at the final report it is len(missing), for any mix
\* of per-height errors and failed batches.
C26_FetchAccounting ==
    [][ /\ BatchReturns => written' + errors' = Len(block_nums)
        /\ TotalsAddUp' ]_vars

\* a final report after a batch that failed as a whole and a batch in which
\* one height was written and one was not
C26_Witness ==
    /\ FinalReport
    /\ Len(missing) = 4
    /\ Len(issued) = 2
    /\ written = 1
    /\ errors = 1
    /\ total_written = 1
    /\ total_errors = 3


-----------------------------------------------------------------------------
(* Properties of --dry-run (SpecFill) *)

\* C27: a dry run leaves the archive unchanged: with --dry-run neither the
\* boundary downloader nor the live fetcher creates, overwrites or deletes
\* an entry or a directory (no step changes the archive, no download task
\* runs, no batch is processed), and neither issues an object download or
\* a batch of block and receipts requests.
C27_DryRunChangesNothing ==
    [][ /\ bnd_dry_run =>
              /\ <<cache, partial, foreign>>' = <<cache, partial, foreign>>
              /\ bnd_todo' = {}
              /\ bnd_started' = <<>>
        /\ dry_run =>
              /\ <<cache, partial, foreign>>' = <<cache, partial, foreign>>
              /\ issued' = <<>>
              /\ rpc_caller' # "batch"
              /\ written' = -1 ]_vars

\* a dry run of the live fetcher over the default range has asked for the
\* chain tip, found heights missing and returned
C27_Witness ==
    /\ dry_run
    /\ fetch_pc = "done"
    /\ rpc_caller = "tip"
    /\ rpc_requests >= 1
    /\ missing = <<3, 4>>
    /\ cache = {block_path(1), block_path(2)}
    /\ issued = <<>>

=============================================================================
